---------------------------- MODULE Spec2Model ----------------------------
(***************************************************************************)
(* A model of CPPON's shared-memory object store (SCppObj) and its local   *)
(* mirror (LocalCppObj).                                                   *)
(*                                                                         *)
(* Conventions                                                             *)
(*   - A C string is a sequence of character codes (ASCII); CharAt gives   *)
(*     the byte at a 0-based index, the terminating NUL included.          *)
(*   - A description (COMap "def") is a record [type, size, defaultValue,  *)
(*     hysteresis, subs]; subs maps child names to their descriptions.     *)
(*   - A STRUCT_LISTS tree is a function from node ids to node records; a  *)
(*     node id is the sequence of subs[] indices (0-based) from the root.  *)
(*   - The shared segment is a function from byte offsets to bytes.        *)
(***************************************************************************)
EXTENDS Integers, Sequences, FiniteSets, TLC

(***************************************************************************)
(* Bounds of the model.                                                    *)
(***************************************************************************)
MaxNameLen == 2
MaxSiblings == 3
MaxArrayLen == 11

(***************************************************************************)
(* Characters and C strings.                                               *)
(***************************************************************************)
\* no node, no path: different from every node id and every string
NULL == <<-1>>

\* the path separators of getElement: '.' and '/'
Separators == {46, 47}

\* the characters names are drawn from: '-', 'a', 'b' ('-' sorts below the
\* separators, the letters above them)
Alphabet == {45, 97, 98}

\* "update": a key buildNames leaves out
UpdateName == <<117, 112, 100, 97, 116, 101>>

CharAt(s, j) == IF j < Len(s) THEN s[j + 1] ELSE 0

Min(a, b) == IF a < b THEN a ELSE b

Take(s, n) == SubSeq(s, 1, Min(n, Len(s)))

Drop(s, n) == SubSeq(s, n + 1, Len(s))

\* std::string operator< : lexicographic on the character codes
RECURSIVE StrLessFrom(_, _, _)
StrLessFrom(a, b, j) ==
    IF j >= Len(a) THEN j < Len(b)
    ELSE IF j >= Len(b) THEN FALSE
    ELSE IF a[j + 1] # b[j + 1] THEN a[j + 1] < b[j + 1]
    ELSE StrLessFrom(a, b, j + 1)

CompareStrings(a, b) == StrLessFrom(a, b, 0)

\* std::sort( s.begin(), s.end(), CompareStrings ) on the (distinct) keys of a map
RECURSIVE SortNames(_)
SortNames(S) ==
    IF S = {} THEN <<>>
    ELSE LET m == CHOOSE x \in S : \A y \in S \ {x} : CompareStrings(x, y)
         IN <<m>> \o SortNames(S \ {m})

\* std::to_string of a non-negative index
RECURSIVE to_string(_)
to_string(n) ==
    IF n < 10 THEN <<48 + n>>
    ELSE to_string(n \div 10) \o <<48 + (n % 10)>>

(***************************************************************************)
(* Descriptions (the JSON configuration).                                  *)
(***************************************************************************)
NoSubs == <<>>

IntDef(sz, dv) ==
    [type |-> "int", size |-> sz, defaultValue |-> dv, hysteresis |-> 0, subs |-> NoSubs]

IntDefH(sz, dv, h) ==
    [type |-> "int", size |-> sz, defaultValue |-> dv, hysteresis |-> h, subs |-> NoSubs]

FloatDef(dv, h) ==
    [type |-> "float", size |-> 8, defaultValue |-> dv, hysteresis |-> h, subs |-> NoSubs]

BoolDef(dv) ==
    [type |-> "bool", size |-> 1, defaultValue |-> dv, hysteresis |-> 0, subs |-> NoSubs]

StringDef(sz, dv) ==
    [type |-> "string", size |-> sz, defaultValue |-> dv, hysteresis |-> 0, subs |-> NoSubs]

UnitDef(subs) ==
    [type |-> "unit", size |-> 0, defaultValue |-> 0, hysteresis |-> 0, subs |-> subs]

ArrayDef(subs) ==
    [type |-> "array", size |-> 0, defaultValue |-> 0, hysteresis |-> 0, subs |-> subs]

\* the children of an array description: its elements keyed "0", "1", ...
ElementSubs(elems) == [k \in {to_string(i - 1) : i \in 1..Len(elems)} |->
                          elems[CHOOSE i \in 1..Len(elems) : to_string(i - 1) = k]]

IsComposite(def) == def.type \in {"unit", "array"}

(***************************************************************************)
(* The name tables: buildNames and buildArrayNames.                        *)
(***************************************************************************)
\* for( j = 0; sPtr[ j ] == s1Ptr[ j ]; j++ ): the keys of a map are distinct, so
\* the loop ends at the latest on the shorter string's NUL
RECURSIVE EqualRun(_, _, _)
EqualRun(s, s1, j) ==
    IF CharAt(s, j) = CharAt(s1, j) /\ j < Len(s) THEN EqualRun(s, s1, j + 1) ELSE j

\* the loop of a middle entry: characters equal to the previous or the next line
RECURSIVE EitherRun(_, _, _, _)
EitherRun(s, s1, s2, j) ==
    IF /\ Len(s) > j
       /\ \/ (Len(s1) > j /\ CharAt(s, j) = CharAt(s1, j))
          \/ (Len(s2) > j /\ CharAt(s, j) = CharAt(s2, j))
    THEN EitherRun(s, s1, s2, j + 1)
    ELSE j

\* a search string that is the first character of the name only
AcronymFirst(s, i) == Take(s[i], 1)

\* the search string of entry i (1-based) of the sorted names: req holds the
\* first j characters plus sPtr[ j ]; strcpy cuts it at the NUL when j is the
\* length of the name
Acronym(s, i) ==
    IF i = 1
    THEN IF Len(s) > 1 THEN Take(s[1], EqualRun(s[1], s[2], 0) + 1)
                       ELSE Take(s[1], 1)
    ELSE IF i = Len(s) THEN Take(s[i], EqualRun(s[i], s[i - 1], 0) + 1)
    ELSE Take(s[i], EitherRun(s[i], s[i - 1], s[i + 1], 0) + 1)

\* buildNames: pairs (search string, full name) in alphabetical order
BuildNames(def) ==
    LET s == SortNames({n \in DOMAIN def.subs : n # UpdateName})
    IN [i \in 1..Len(s) |-> [key |-> Acronym(s, i), name |-> s[i]]]

\* buildArrayNames: "0", "1", ... for each map of the description
BuildArrayNames(def) ==
    [i \in 1..Cardinality(DOMAIN def.subs) |->
        [key |-> to_string(i - 1), name |-> to_string(i - 1)]]

(***************************************************************************)
(* The STRUCT_LISTS tree: initializeObject, buildUnit, buildArray.         *)
(* The running offsets (timeOffset, doubleOffset, ...) are members of the  *)
(* object; here they are threaded through the recursion as a record.       *)
(***************************************************************************)
BaseName == <<98, 97, 115, 101>>

PrimType(def) ==
    CASE def.type = "int" -> (IF def.size = 1 THEN "INT8"
                              ELSE IF def.size = 2 THEN "INT16"
                              ELSE IF def.size = 8 THEN "INT64"
                              ELSE "INT32")
      [] def.type = "float" -> "DOUBLE"
      [] def.type = "string" -> "CHAR"
      [] def.type = "bool" -> "BOOL"

PrimSize(def) ==
    CASE PrimType(def) \in {"INT8", "BOOL"} -> 1
      [] PrimType(def) = "INT16" -> 2
      [] PrimType(def) = "INT32" -> 4
      [] PrimType(def) \in {"INT64", "DOUBLE"} -> 8
      [] PrimType(def) = "CHAR" -> def.size

\* the running offset a type draws from
Region(type) ==
    CASE type = "DOUBLE" -> "dbl"
      [] type = "INT64" -> "i64"
      [] type = "INT32" -> "i32"
      [] type = "INT16" -> "i16"
      [] type \in {"INT8", "BOOL"} -> "b8"
      [] type = "CHAR" -> "ch"

\* the primitive branch of the three builders.  top: the branch of
\* initializeObject, which advances charOffset before it stores it in a string's
\* offset; buildUnit and buildArray store it first
PrimNode(def, name, cur, top) ==
    [type |-> PrimType(def), name |-> name,
     offset |-> IF top /\ PrimType(def) = "CHAR" THEN cur.ch + PrimSize(def)
                ELSE cur[Region(PrimType(def))],
     size |-> PrimSize(def), time |-> cur.time, nSubs |-> 0, names |-> <<>>,
     def |-> def]

PrimAdvance(def, cur) ==
    [cur EXCEPT !.time = @ + 8, ![Region(PrimType(def))] = @ + PrimSize(def)]

RECURSIVE buildSubs(_, _, _, _, _, _)
RECURSIVE buildUnit(_, _, _, _)
RECURSIVE buildArray(_, _, _, _)

\* the body of the loop over unit->names, from entry k (1-based) on: the nodes
\* built and the running offsets afterwards
buildSubs(def, names, id, k, cur, top) ==
    IF k > Len(names) THEN [nodes |-> <<>>, cur |-> cur]
    ELSE LET c == names[k].name
             mp == def.subs[c]
             sub == id \o <<k - 1>>
             r == IF mp.type = "unit" THEN buildUnit(mp, c, sub, cur)
                  ELSE IF mp.type = "array" THEN buildArray(mp, c, sub, cur)
                  ELSE [nodes |-> (sub :> PrimNode(mp, c, cur, top)),
                        cur |-> PrimAdvance(mp, cur)]
             rest == buildSubs(def, names, id, k + 1, r.cur, top)
         IN [nodes |-> r.nodes @@ rest.nodes, cur |-> rest.cur]

\* unit->size = eightBitOffset + charOffset + doubleOffset + int32Offset + ...
SumOffsets(cur) == cur.b8 + cur.ch + cur.dbl + cur.i32 + cur.i64 + cur.i16

buildUnit(def, name, id, cur) ==
    LET names == BuildNames(def)
        r == buildSubs(def, names, id, 1, cur, FALSE)
    IN [nodes |-> (id :> [type |-> "UNIT", name |-> name, offset |-> 0,
                          size |-> SumOffsets(r.cur), time |-> 0,
                          nSubs |-> Cardinality(DOMAIN def.subs),
                          names |-> names, def |-> def]) @@ r.nodes,
        cur |-> r.cur]

buildArray(def, name, id, cur) ==
    LET names == BuildArrayNames(def)
        r == buildSubs(def, names, id, 1, cur, FALSE)
    IN [nodes |-> (id :> [type |-> "ARRAY", name |-> name, offset |-> 0,
                          size |-> SumOffsets(r.cur), time |-> 0,
                          nSubs |-> Cardinality(DOMAIN def.subs),
                          names |-> names, def |-> def]) @@ r.nodes,
        cur |-> r.cur]

\* timeOffset = 0x20, the other running offsets 0
StartOffsets == [time |-> 32, dbl |-> 0, i64 |-> 0, i32 |-> 0, i16 |-> 0, b8 |-> 0, ch |-> 0]

\* initializeObject up to the mapping of the segment: the tree (offsets still
\* relative to their region), the region bases and the size of the segment
initializeObject(config) ==
    LET names == BuildNames(config)
        r == buildSubs(config, names, <<>>, 1, StartOffsets, TRUE)
        doubleStart == r.cur.time
        int64Start == doubleStart + r.cur.dbl
        int32Start == int64Start + r.cur.i64
        int16Start == int32Start + r.cur.i32
        eightBitStart == int16Start + r.cur.i16
        charStart == eightBitStart + r.cur.b8
        size == charStart + r.cur.ch
    IN [nodes |-> (<<>> :> [type |-> "UNIT", name |-> BaseName, offset |-> 32,
                            size |-> size, time |-> 0,
                            nSubs |-> Cardinality({n \in DOMAIN config.subs : n # UpdateName}),
                            names |-> names, def |-> config]) @@ r.nodes,
        start |-> [dbl |-> doubleStart, i64 |-> int64Start, i32 |-> int32Start,
                   i16 |-> int16Start, b8 |-> eightBitStart, ch |-> charStart],
        size |-> size]

(***************************************************************************)
(* The path resolver: getElement.                                          *)
(***************************************************************************)
\* for( e = path; *e && '/' != *e && '.' != *e; e++ ); l = e - path
RECURSIVE SegmentLen(_, _)
SegmentLen(path, l) ==
    IF l < Len(path) /\ path[l + 1] \notin Separators THEN SegmentLen(path, l + 1) ELSE l

\* for( j = 0; j < l && key[ j ] && path[ j ] == key[ j ]; j++ )
RECURSIVE KeyRun(_, _, _, _)
KeyRun(path, key, l, j) ==
    IF j < l /\ CharAt(key, j) # 0 /\ CharAt(path, j) = CharAt(key, j)
    THEN KeyRun(path, key, l, j + 1)
    ELSE j

RECURSIVE getElement(_, _, _)
RECURSIVE ScanNames(_, _, _, _)

\* a search that takes the first entry whose search string the segment starts
\* with, whatever the length of the full name
ScanNamesAbbrev(path, nodes, base, i) ==
    LET names == nodes[base].names
        l == SegmentLen(path, 0)
    IN IF i > Len(names) THEN NULL
       ELSE LET key == names[i].key
                j == KeyRun(path, key, l, 0)
            IN IF CharAt(key, j) = 0
               THEN IF CharAt(path, l) # 0
                    THEN getElement(Drop(path, l + 1), nodes, base \o <<i - 1>>)
                    ELSE base \o <<i - 1>>
               ELSE IF CharAt(key, j) > CharAt(path, j) THEN NULL
               ELSE ScanNames(path, nodes, base, i + 1)

\* the loop over base->names from entry i (1-based) on
ScanNames(path, nodes, base, i) ==
    LET names == nodes[base].names
        l == SegmentLen(path, 0)
    IN IF i > Len(names) THEN NULL
       ELSE LET key == names[i].key
                j == KeyRun(path, key, l, 0)
            IN IF CharAt(key, j) = 0
               THEN IF l # Len(names[i].name) THEN ScanNames(path, nodes, base, i + 1)
                    ELSE IF Take(names[i].name, l) # Take(path, l) THEN NULL
                    ELSE IF CharAt(path, l) # 0
                         THEN getElement(Drop(path, l + 1), nodes, base \o <<i - 1>>)
                    ELSE base \o <<i - 1>>
               ELSE IF CharAt(key, j) > CharAt(path, j) THEN NULL
               ELSE ScanNames(path, nodes, base, i + 1)

getElement(path, nodes, base) ==
    IF base \in DOMAIN nodes THEN ScanNames(path, nodes, base, 1) ELSE NULL

(***************************************************************************)
(* The segment: bytes, and the values stored in them.                      *)
(*   - Integers are stored little-endian in two's complement.              *)
(*   - A double is represented by its value in hundredths, stored like a   *)
(*     64-bit integer: 0.0 is eight zero bytes, as in IEEE 754.            *)
(*   - An unsigned value that does not fit the checker's integers is read  *)
(*     as its two's complement value of the same width.                    *)
(***************************************************************************)
RECURSIVE ByteOf(_, _)
ByteOf(v, k) == IF k = 0 THEN v % 256 ELSE ByteOf(v \div 256, k - 1)

Encode(v, w) == [i \in 1..w |-> ByteOf(v, i - 1)]

RECURSIVE Unsigned(_)
Unsigned(bytes) ==
    IF bytes = <<>> THEN 0 ELSE Head(bytes) + 256 * Unsigned(Tail(bytes))

Pow256(k) == IF k = 0 THEN 1 ELSE IF k = 1 THEN 256 ELSE IF k = 2 THEN 65536 ELSE 16777216

\* a value of 64 bits outside the 32-bit range
Wide == 2147483647

Signed(bytes) ==
    LET w == Len(bytes)
        low == IF w > 4 THEN SubSeq(bytes, 1, 4) ELSE bytes
        top == low[Len(low)]
        val == Unsigned(SubSeq(low, 1, Len(low) - 1))
               + (IF top >= 128 THEN top - 256 ELSE top) * Pow256(Len(low) - 1)
    IN IF w <= 4 THEN val
       ELSE IF \A i \in 5..w : bytes[i] = (IF top >= 128 THEN 255 ELSE 0) THEN val
       ELSE Wide

ReadBytes(m, off, w) == [i \in 1..w |-> m[off + i - 1]]

\* bytes that fall outside the mapping are not stored
WriteBytes(m, off, bytes) ==
    [a \in DOMAIN m |-> IF a >= off /\ a < off + Len(bytes) THEN bytes[a - off + 1] ELSE m[a]]

\* memset( base + off, 0, n )
ZeroBytes(m, off, n) ==
    [a \in DOMAIN m |-> IF a >= off /\ a < off + n THEN 0 ELSE m[a]]

\* the C string at an offset: the bytes before the first NUL
RECURSIVE CString(_, _)
CString(m, off) ==
    IF off \notin DOMAIN m \/ m[off] = 0 THEN <<>> ELSE <<m[off]>> \o CString(m, off + 1)

(***************************************************************************)
(* The validity header: bytes 0 .. 31 of the segment.                      *)
(***************************************************************************)
\* the values random() is taken to deliver for the bytes 1 .. 19
RandomBytes == {1, 254}

RECURSIVE SumTo(_, _)
SumTo(m, i) == IF i < 0 THEN 0 ELSE m[i] + SumTo(m, i - 1)

\* the header the initializer writes after byte 0: bytes 1 .. 19 the random
\* value r, bytes 20 .. 29 counting up from byte 19, bytes 30 and 31 the sum
\* of 0xA5 and the bytes 1 .. 29
WriteHeader(m, r) ==
    LET h == [i \in 1..29 |-> IF i < 20 THEN r ELSE (r + (i - 19)) % 256]
        s == (165 + SumTo([i \in 0..29 |-> IF i = 0 THEN 0 ELSE h[i]], 29)) % 65536
    IN WriteBytes(m, 1, h \o <<s % 256, s \div 256>>)

\* the test of setBasePointer on an existing segment.  The first byte is read
\* as a plain char and compared with 0xA5: where char is signed the byte
\* 0xA5 reads as -91 and the comparison fails
ValidHeader(m, signedChar) ==
    /\ ~signedChar
    /\ m[0] = 165
    /\ \A i \in 0..19 : m[i] # 0 /\ m[i] # 255
    /\ m[30] = SumTo(m, 29) % 256
    /\ m[31] = (SumTo(m, 29) % 65536) \div 256
    /\ \A i \in 20..29 : m[i] = (m[19] + (i - 19)) % 256

(***************************************************************************)
(* Defaults.                                                               *)
(***************************************************************************)
\* the bytes the initializer stores for a primitive: the default cast to the
\* width of the field, 0xFF or 0x00 for a Boolean, strcpy of a string
DefaultBytes(def) ==
    CASE def.type = "int" -> Encode(def.defaultValue, PrimSize(def))
      [] def.type = "float" -> Encode(def.defaultValue, 8)
      [] def.type = "bool" -> IF def.defaultValue THEN <<255>> ELSE <<0>>
      [] def.type = "string" -> def.defaultValue \o <<0>>

IsPrimitive(nodes, n) == nodes[n].type \notin {"UNIT", "ARRAY"}

Primitives(nodes) == {n \in DOMAIN nodes : IsPrimitive(nodes, n)}

Composites(nodes) == DOMAIN nodes \ Primitives(nodes)

\* n lies below an array (the root is not counted as an ancestor)
UnderArray(nodes, n) ==
    \E k \in 1..(Len(n) - 1) : nodes[SubSeq(n, 1, k)].type = "ARRAY"

Parent(id) == SubSeq(id, 1, Len(id) - 1)

IsPrefix(a, b) == Len(a) <= Len(b) /\ SubSeq(b, 1, Len(a)) = a

\* the primitives at or below a node, in the order the loops visit them
PrimsBelow(nodes, c) == SortNames({n \in Primitives(nodes) : IsPrefix(c, n)})

\* the offset of a primitive once its region base is added
BasedOffset(L, n) == L.nodes[n].offset + L.start[Region(L.nodes[n].type)]

\* the defaults of a sequence of primitives, stored one after the other
RECURSIVE StoreDefaults(_, _, _)
StoreDefaults(m, L, ps) ==
    IF ps = <<>> THEN m
    ELSE StoreDefaults(WriteBytes(m, BasedOffset(L, Head(ps)), DefaultBytes(L.nodes[Head(ps)].def)),
                       L, Tail(ps))

(***************************************************************************)
(* What an object knows of the tree once setBasePointer has run, by the    *)
(* path it took: "init" (the initializer: unitDefaults and arrayDefaults   *)
(* visit every node) or "attach" (listSems visits the units; listArraySems *)
(* only prints the names of an array's elements, so that nothing below an  *)
(* array gets its region base added or its semaphore set).                 *)
(***************************************************************************)
\* the value of a sem pointer that was never assigned
NoSem == -1

Visited(L, v, n) == v = "init" \/ ~UnderArray(L.nodes, n)

Offset(L, v, n) ==
    IF Visited(L, v, n) THEN BasedOffset(L, n) ELSE L.nodes[n].offset

\* openSem numbers the semaphores in the order of the calls: 0 is the init
\* semaphore, 1 the one of the root, then one per composite visited
SemIndex(L, v, c) ==
    Cardinality({m \in Composites(L.nodes) :
                    Visited(L, v, m) /\ (m = c \/ CompareStrings(m, c))})

SemOf(L, v, n) ==
    IF ~Visited(L, v, n) THEN NoSem
    ELSE IF IsPrimitive(L.nodes, n) THEN SemIndex(L, v, Parent(n))
    ELSE SemIndex(L, v, n)

NumSems(L) == Cardinality(Composites(L.nodes)) + 1

(***************************************************************************)
(* The typed accessors: the switch on the type of the node.  The arms for  *)
(* SL_TYPE_CHAR of the value accessors parse the text of the string; the   *)
(* numeric arms of the string accessor format text and are not part of     *)
(* this model.  Results of unsigned type are given as the two's complement *)
(* value of the same bits.                                                 *)
(***************************************************************************)
\* strcasecmp( a, b ) = 0: the strings are equal once their letters are folded
Lower(c) == IF c \in 65..90 THEN c + 32 ELSE c

StrCaseEq(a, b) == Len(a) = Len(b) /\ \A i \in 1..Len(a) : Lower(a[i]) = Lower(b[i])

\* "true"
TrueText == <<116, 114, 117, 101>>

\* the value of a character as a digit, 99 if it is none
DigitVal(c) ==
    IF c \in 48..57 THEN c - 48
    ELSE IF c \in 97..102 THEN c - 87
    ELSE IF c \in 65..70 THEN c - 55
    ELSE 99

\* the digits of s from position i on, in the given base
RECURSIVE ParseDigits(_, _, _, _)
ParseDigits(s, i, base, acc) ==
    IF i > Len(s) \/ DigitVal(s[i]) >= base THEN acc
    ELSE ParseDigits(s, i + 1, base, acc * base + DigitVal(s[i]))

\* the first position of s from i on that holds no white space
RECURSIVE SkipSpace(_, _)
SkipSpace(s, i) ==
    IF i <= Len(s) /\ s[i] \in {32, 9, 10, 11, 12, 13} THEN SkipSpace(s, i + 1) ELSE i

\* strtol( s, NULL, 0 ) and strtoll: white space, a sign, then hexadecimal
\* after "0x", octal after "0", decimal otherwise; 0 where no digits follow
strtol(s) ==
    LET i0 == SkipSpace(s, 1)
        signed == i0 <= Len(s) /\ s[i0] \in {43, 45}
        i1 == IF signed THEN i0 + 1 ELSE i0
        hex == /\ i1 + 2 <= Len(s)
               /\ s[i1] = 48
               /\ s[i1 + 1] \in {120, 88}
               /\ DigitVal(s[i1 + 2]) < 16
        base == IF hex THEN 16 ELSE IF i1 <= Len(s) /\ s[i1] = 48 THEN 8 ELSE 10
        v == ParseDigits(s, IF hex THEN i1 + 2 ELSE i1, base, 0)
    IN IF signed /\ s[i0] = 45 THEN -v ELSE v

\* the end of the run of decimal digits of s that starts at position i
RECURSIVE DigitsEnd(_, _)
DigitsEnd(s, i) == IF i <= Len(s) /\ s[i] \in 48..57 THEN DigitsEnd(s, i + 1) ELSE i

\* strtod( s, NULL ) in hundredths, for decimal text with at most two digits
\* after the point: white space, a sign, digits, a point, digits
strtod(s) ==
    LET i0 == SkipSpace(s, 1)
        signed == i0 <= Len(s) /\ s[i0] \in {43, 45}
        i1 == IF signed THEN i0 + 1 ELSE i0
        i2 == DigitsEnd(s, i1)
        whole == ParseDigits(SubSeq(s, i1, i2 - 1), 1, 10, 0)
        point == i2 <= Len(s) /\ s[i2] = 46
        i3 == IF point THEN DigitsEnd(s, i2 + 1) ELSE i2
        frac == IF point THEN SubSeq(s, i2 + 1, i3 - 1) ELSE <<>>
        cents == IF Len(frac) = 0 THEN 0
                 ELSE IF Len(frac) = 1 THEN 10 * DigitVal(frac[1])
                 ELSE 10 * DigitVal(frac[1]) + DigitVal(frac[2])
        v == IF i2 = i1 /\ Len(frac) = 0 THEN 0 ELSE 100 * whole + cents
    IN IF signed /\ s[i0] = 45 THEN -v ELSE v

\* ( int ) of a double: towards zero
Trunc(h) == IF h >= 0 THEN h \div 100 ELSE -((-h) \div 100)

\* round() of a double: halves away from zero
Round(h) == IF h >= 0 THEN (h + 50) \div 100 ELSE -((50 - h) \div 100)

NotValid == [valid |-> FALSE, result |-> 0]

Valid(r) == [valid |-> TRUE, result |-> r]

doubleValue(m, off, type) ==
    CASE type = "CHAR" -> Valid(strtod(CString(m, off)))
      [] type = "DOUBLE" -> Valid(Signed(ReadBytes(m, off, 8)))
      [] type = "INT64" -> Valid(100 * Signed(ReadBytes(m, off, 8)))
      [] type = "INT32" -> Valid(100 * Signed(ReadBytes(m, off, 4)))
      [] type = "INT8" -> Valid(100 * Signed(ReadBytes(m, off, 1)))
      [] type = "BOOL" -> Valid(IF m[off] # 0 THEN 100 ELSE 0)
      [] type \in {"INT16", "UNIT", "ARRAY"} -> NotValid

longValue(m, off, type) ==
    CASE type = "CHAR" -> Valid(strtol(CString(m, off)))
      [] type = "DOUBLE" -> Valid(Trunc(Signed(ReadBytes(m, off, 8))))
      [] type = "INT64" -> Valid(Signed(ReadBytes(m, off, 8)))
      [] type = "INT32" -> Valid(Signed(ReadBytes(m, off, 4)))
      [] type = "INT8" -> Valid(Signed(ReadBytes(m, off, 1)))
      [] type = "BOOL" -> Valid(IF m[off] # 0 THEN 1 ELSE 0)
      [] type \in {"INT16", "UNIT", "ARRAY"} -> NotValid

intValue(m, off, type) ==
    CASE type = "CHAR" -> Valid(strtol(CString(m, off)))
      [] type = "DOUBLE" -> Valid(Trunc(Signed(ReadBytes(m, off, 8))))
      [] type = "INT64" -> Valid(Signed(ReadBytes(m, off, 4)))
      [] type = "INT32" -> Valid(Signed(ReadBytes(m, off, 4)))
      [] type = "INT16" -> Valid(Signed(ReadBytes(m, off, 2)))
      [] type = "INT8" -> Valid(Signed(ReadBytes(m, off, 1)))
      [] type = "BOOL" -> Valid(IF m[off] # 0 THEN 1 ELSE 0)
      [] type \in {"UNIT", "ARRAY"} -> NotValid

boolValue(m, off, type) ==
    CASE type = "CHAR" -> Valid(StrCaseEq(CString(m, off), TrueText))
      [] type = "DOUBLE" -> Valid(Signed(ReadBytes(m, off, 8)) # 0)
      [] type = "INT64" -> Valid(Signed(ReadBytes(m, off, 8)) # 0)
      [] type = "INT32" -> Valid(Signed(ReadBytes(m, off, 4)) # 0)
      [] type = "INT8" -> Valid(m[off] # 0)
      [] type = "BOOL" -> Valid(m[off] # 0)
      [] type \in {"INT16", "UNIT", "ARRAY"} -> [valid |-> FALSE, result |-> FALSE]

\* readString( path, NULL, 0, ... ): strdup of the stored string
readString(m, off, type) ==
    CASE type = "CHAR" -> Valid(CString(m, off))
      [] type \in {"UNIT", "ARRAY"} -> [valid |-> FALSE, result |-> <<>>]

\* the bytes an update stores, <<>> where the switch takes its default arm
updateDouble(node, val) ==
    CASE node.type = "DOUBLE" -> Encode(val, 8)
      [] node.type = "INT64" -> Encode(Round(val), 8)
      [] node.type = "INT32" -> Encode(Round(val), 4)
      [] node.type = "INT16" -> Encode(Round(val), 2)
      [] node.type = "INT8" -> Encode(Round(val), 1)
      [] node.type = "BOOL" -> IF val # 0 THEN <<255>> ELSE <<0>>
      [] node.type \in {"UNIT", "ARRAY"} -> <<>>

updateLong(node, val) ==
    CASE node.type = "DOUBLE" -> Encode(100 * val, 8)
      [] node.type = "INT64" -> Encode(val, 8)
      [] node.type = "INT32" -> Encode(val, 4)
      [] node.type = "INT16" -> Encode(val, 2)
      [] node.type = "INT8" -> Encode(val, 1)
      [] node.type = "BOOL" -> IF val # 0 THEN <<255>> ELSE <<0>>
      [] node.type \in {"UNIT", "ARRAY"} -> <<>>

\* val is a uint32_t: stored in 64 bits it is extended with zeros
updateInt(node, val) ==
    CASE node.type = "DOUBLE" -> Encode(100 * val, 8)
      [] node.type = "INT64" -> Encode(val, 4) \o <<0, 0, 0, 0>>
      [] node.type = "INT32" -> Encode(val, 4)
      [] node.type = "INT16" -> Encode(val, 2)
      [] node.type = "INT8" -> Encode(val, 1)
      [] node.type = "BOOL" -> IF val # 0 THEN <<255>> ELSE <<0>>
      [] node.type \in {"UNIT", "ARRAY"} -> <<>>

\* the arm for SL_TYPE_BOOL stores the bool itself: the byte 1 or 0
updateBoolean(node, val) ==
    CASE node.type = "DOUBLE" -> Encode(IF val THEN 100 ELSE 0, 8)
      [] node.type = "INT64" -> Encode(IF val THEN 1 ELSE 0, 8)
      [] node.type = "INT32" -> Encode(IF val THEN 1 ELSE 0, 4)
      [] node.type = "INT16" -> Encode(IF val THEN 1 ELSE 0, 2)
      [] node.type = "INT8" -> <<IF val THEN 1 ELSE 0>>
      [] node.type = "BOOL" -> <<IF val THEN 1 ELSE 0>>
      [] node.type \in {"UNIT", "ARRAY"} -> <<>>

\* a NUL in the last byte, then strncpy of size - 1 bytes, which pads with NULs
updateString(node, str) ==
    CASE node.type = "CHAR" ->
            [i \in 1..node.size |-> IF i <= Len(str) /\ i < node.size THEN str[i] ELSE 0]
      [] node.type \in {"UNIT", "ARRAY"} -> <<>>

\* setUpdateTime( lst ): the clock stored in the time slot of the node
setUpdateTime(m, node, t) == WriteBytes(m, node.time, Encode(t, 8))

\* the accessor that reads a node at its declared type
ReadTyped(m, off, type) ==
    CASE type = "DOUBLE" -> doubleValue(m, off, type)
      [] type = "INT64" -> longValue(m, off, type)
      [] type \in {"INT32", "INT16", "INT8"} -> intValue(m, off, type)
      [] type = "BOOL" -> boolValue(m, off, type)
      [] type = "CHAR" -> readString(m, off, type)

\* the accessor that updates a node at its declared type
UpdateTyped(node, val) ==
    CASE node.type = "DOUBLE" -> updateDouble(node, val)
      [] node.type = "INT64" -> updateLong(node, val)
      [] node.type \in {"INT32", "INT16", "INT8"} -> updateInt(node, val)
      [] node.type = "BOOL" -> updateBoolean(node, val)
      [] node.type = "CHAR" -> updateString(node, val)

\* the default of a primitive as its typed read delivers it
DefaultValue(def) ==
    CASE def.type \in {"int", "float", "string"} -> def.defaultValue
      [] def.type = "bool" -> def.defaultValue

\* the values the updates of the model store
NewValues(def) ==
    CASE def.type = "int" -> {5}
      [] def.type = "float" -> {250}
      [] def.type = "bool" -> {~def.defaultValue}
      [] def.type = "string" -> {<<104, 105>>}

(***************************************************************************)
(* State.                                                                  *)
(***************************************************************************)
VARIABLES
    config,       \* the description the objects are constructed from
    list,         \* the result of initializeObject: nodes, region bases, size
    rsPath,       \* the path of the last getElement call, NULL before the first
    rsRes,        \* its result: a node id or NULL
    charSigned,   \* the build: whether plain char is signed
    mem,          \* the shared segment, zero-filled when it is created
    semv,         \* the values of the named semaphores /snSem_0, /snSem_1, ...
    now,          \* the time of day when it was read last
    pc,           \* per process: where its object is in its life
    via,          \* per process: the path setBasePointer took
    initialized,  \* per process: the flag setBasePointer hands back
    units,        \* per process: the loop index of the initializer
    held,         \* per process: the semaphores it has waited on and not posted
    op,           \* per process: the accessor call in progress
    last,         \* the outcome of the accessor call made last, by any process
    cap,          \* per process: the composite whose semaphore its caller holds
    mirror,       \* per process: its LocalCppObj, the node it mirrors and its buffer
    hist          \* history: what was stored, and what was found at attach

schemaVars == <<config, list>>
resolveVars == <<rsPath, rsRes>>
segVars == <<charSigned, mem, semv, now>>
procVars == <<pc, via, initialized, units, held, op, last, cap, mirror>>

vars == <<config, list, rsPath, rsRes, charSigned, mem, semv, now,
          pc, via, initialized, units, held, op, last, cap, mirror, hist>>

(***************************************************************************)
(* Bounds of the process model.                                            *)
(***************************************************************************)
NumProcs == 2
MaxClock == 2
MaxUpdates == 1
MaxBatch == 2
MaxCaptures == 2
MaxMirrors == 1
MaxWrites == 1
MaxInitPosts == 2

Procs == 1..NumProcs

NoOp == [acc |-> "none", fn |-> "none", node |-> NULL, protect |-> FALSE, val |-> 0,
         phase |-> "none", rest |-> <<>>, out |-> <<>>]

NoCap == [node |-> NULL, open |-> FALSE, sem |-> NoSem, before |-> <<>>, obs |-> <<>>,
          wrote |-> {}]

NoLast == [by |-> 0, acc |-> "none", node |-> NULL, value |-> 0, stored |-> 0, ts |-> 0,
           expect |-> <<>>]

NoBatch == [by |-> 0, sem |-> NoSem, before |-> <<>>, after |-> <<>>, nodes |-> {}]

\* what a history starts from: nothing stored by an update yet
NoHist(L, budget, loose) ==
    [budget |-> budget,
     loose |-> loose,
     captures |-> 0,
     written |-> [n \in Primitives(L.nodes) |-> {}],
     shadow |-> [n \in Primitives(L.nodes) |-> <<>>],
     foundValid |-> [p \in Procs |-> FALSE],
     wrote |-> [p \in Procs |-> FALSE],
     batch |-> NoBatch,
     updates |-> 0]

\* no LocalCppObj: no buffer
\* seen and again are a history of the buffer, kept where track is set: the
\* primitives it has taken from the segment since the last write to the
\* segment, and the ones checkChanges has read once more since
NoMirror == [node |-> NULL, buf |-> <<>>, track |-> FALSE, seen |-> {}, again |-> {}]

\* a process whose mirror will keep its history
Tracked == [NoMirror EXCEPT !.track = TRUE]

\* the mirrors once the segment is written to
Stale(mr) == [q \in DOMAIN mr |-> [mr[q] EXCEPT !.seen = {}, !.again = {}]]

\* the history of a mirror once it has taken the primitive n from the segment
Taken(mr, n, twice) ==
    IF mr.track
    THEN [mr EXCEPT !.seen = @ \cup {n},
                    !.again = IF twice THEN @ \cup ({n} \cap mr.seen) ELSE @]
    ELSE mr

\* a segment that does not exist yet: shm_open creates it and ftruncate
\* extends it with zero bytes; sem_open creates each semaphore with value 1
NewSegment(L) ==
    /\ charSigned \in BOOLEAN
    /\ mem = [a \in 0..(L.size - 1) |-> 0]
    /\ semv = [k \in 0..(NumSems(L) - 1) |-> 1]
    /\ now = 1

NoObjects ==
    /\ pc = [p \in Procs |-> "idle"]
    /\ via = [p \in Procs |-> "none"]
    /\ initialized = [p \in Procs |-> FALSE]
    /\ units = [p \in Procs |-> 0]
    /\ held = [p \in Procs |-> {}]
    /\ op = [p \in Procs |-> NoOp]
    /\ last = NoLast
    /\ cap = [p \in Procs |-> NoCap]
    /\ mirror = [p \in Procs |-> NoMirror]

(***************************************************************************)
(* Constructing an object: initializeObject and setBasePointer.            *)
(***************************************************************************)
\* SCppObj::SCppObj up to the first look at the segment: the tree is built,
\* the segment opened (created if absent) and mapped, the init semaphore opened
Construct(p) ==
    /\ pc[p] = "idle"
    /\ pc' = [pc EXCEPT ![p] = "check5A"]
    /\ UNCHANGED <<schemaVars, resolveVars, segVars, via, initialized, units, held, op, last, cap, mirror, hist>>

\* if( 0x5A == *((char *)basePtr) )
Check5A(p) ==
    /\ pc[p] = "check5A"
    /\ pc' = [pc EXCEPT ![p] = IF mem[0] = 90 THEN "waitInit" ELSE "checkA5"]
    /\ UNCHANGED <<schemaVars, resolveVars, segVars, via, initialized, units, held, op, last, cap, mirror, hist>>

\* sem_wait( initSem ) in the place of sem_timedwait: a wait with no timeout
WaitInitForever(p) ==
    /\ pc[p] = "waitInit"
    /\ semv[0] > 0
    /\ semv' = [semv EXCEPT ![0] = @ - 1]
    /\ held' = [held EXCEPT ![p] = @ \cup {0}]
    /\ pc' = [pc EXCEPT ![p] = "postInit"]
    /\ UNCHANGED <<schemaVars, resolveVars, charSigned, mem, now, via, initialized, units, op, last, cap, mirror, hist>>

\* sem_timedwait( initSem, now + 400 ms ): the semaphore is taken, or the wait
\* times out and the error is logged
WaitInit(p) ==
    /\ pc[p] = "waitInit"
    /\ IF semv[0] > 0
       THEN /\ semv' = [semv EXCEPT ![0] = @ - 1]
            /\ held' = [held EXCEPT ![p] = @ \cup {0}]
            /\ pc' = [pc EXCEPT ![p] = "postInit"]
       ELSE /\ pc' = [pc EXCEPT ![p] = "checkA5"]
            /\ UNCHANGED <<semv, held>>
    /\ UNCHANGED <<schemaVars, resolveVars, charSigned, mem, now, via, initialized, units, op, last, cap, mirror, hist>>

\* sem_post( initSem ) after a successful wait
PostInit(p) ==
    /\ pc[p] = "postInit"
    /\ semv' = [semv EXCEPT ![0] = @ + 1]
    /\ held' = [held EXCEPT ![p] = @ \ {0}]
    /\ pc' = [pc EXCEPT ![p] = "checkA5"]
    /\ UNCHANGED <<schemaVars, resolveVars, charSigned, mem, now, via, initialized, units, op, last, cap, mirror, hist>>

\* the validation of the header and *initialized = ! validInit
CheckA5(p) ==
    LET validInit == ValidHeader(mem, charSigned)
    IN /\ pc[p] = "checkA5"
       /\ initialized' = [initialized EXCEPT ![p] = ~validInit]
       /\ via' = [via EXCEPT ![p] = IF validInit THEN "attach" ELSE "init"]
       /\ pc' = [pc EXCEPT ![p] = IF validInit THEN "listSems" ELSE "mark"]
       /\ hist' = [hist EXCEPT !.foundValid[p] = ValidHeader(mem, FALSE)]
       /\ UNCHANGED <<schemaVars, resolveVars, segVars, units, held, op, last, cap, mirror>>

\* *((char *) basePtr ) = 0x5A
InitMark(p) ==
    /\ pc[p] = "mark"
    /\ mem' = [mem EXCEPT ![0] = 90]
    /\ pc' = [pc EXCEPT ![p] = "clear"]
    /\ UNCHANGED <<schemaVars, resolveVars, charSigned, semv, now, via, initialized, units, held, op, last, cap, mirror, hist>>

\* memset( base + 0x20, 0, 0x10 ); memset( base + 0x30, 0, list->size - 0x30 ):
\* the length is unsigned, and for a segment shorter than 0x30 bytes it wraps
\* to about 4 GiB: the process runs off its mapping and dies
InitClear(p) ==
    /\ pc[p] = "clear"
    /\ mem' = ZeroBytes(mem, 32, list.size - 32)
    /\ pc' = [pc EXCEPT ![p] = IF list.size < 48 THEN "crashed" ELSE "header"]
    /\ hist' = [hist EXCEPT !.shadow = [n \in DOMAIN @ |-> <<>>], !.wrote[p] = TRUE]
    /\ UNCHANGED <<schemaVars, resolveVars, charSigned, semv, now, via, initialized, units, held, op, last, cap, mirror>>

\* the header bytes 1 .. 31; list->sem = openSem(); the update times zeroed
InitHeader(p) ==
    /\ pc[p] = "header"
    /\ \E r \in RandomBytes :
          mem' = ZeroBytes(WriteHeader(mem, r), 32, list.start.dbl - 32)
    /\ units' = [units EXCEPT ![p] = 0]
    /\ pc' = [pc EXCEPT ![p] = "defaults"]
    /\ UNCHANGED <<schemaVars, resolveVars, charSigned, semv, now, via, initialized, held, op, last, cap, mirror, hist>>

\* one turn of the loop over list->names: a unit (unitDefaults), an array
\* (arrayDefaults) or a primitive gets its semaphore, its offsets based and
\* its defaults stored
InitDefault(p) ==
    /\ pc[p] = "defaults"
    /\ units[p] < Len(list.nodes[<<>>].names)
    /\ mem' = StoreDefaults(mem, list, PrimsBelow(list.nodes, <<units[p]>>))
    /\ units' = [units EXCEPT ![p] = @ + 1]
    /\ UNCHANGED <<schemaVars, resolveVars, charSigned, semv, now, pc, via, initialized, held, op, last, cap, mirror, hist>>

\* *((char *) basePtr ) = 0xA5; sem_post( initSem ); the constructor then
\* calls the callback of the caller, initialized being true
InitDone(p) ==
    /\ pc[p] = "defaults"
    /\ units[p] = Len(list.nodes[<<>>].names)
    /\ mem' = [mem EXCEPT ![0] = 165]
    /\ semv' = [semv EXCEPT ![0] = @ + 1]
    /\ pc' = [pc EXCEPT ![p] = "ready"]
    /\ UNCHANGED <<schemaVars, resolveVars, charSigned, now, via, initialized, units, held, op, last, cap, mirror, hist>>

\* if( validInit ): the semaphores are opened and the offsets based, listSems
\* for the units and listArraySems for the arrays; nothing is stored
AttachDone(p) ==
    /\ pc[p] = "listSems"
    /\ pc' = [pc EXCEPT ![p] = "ready"]
    /\ UNCHANGED <<schemaVars, resolveVars, segVars, via, initialized, units, held, op, last, cap, mirror, hist>>

(***************************************************************************)
(* Calls on an object.  A typed accessor is three steps: waitSem if        *)
(* protect, the switch on the type of the node, sem_post if protect.  The  *)
(* bulk operations go through their primitives one at a time, each with    *)
(* the same three steps.                                                   *)
(***************************************************************************)
Ready(p) == pc[p] = "ready" /\ op[p].acc = "none"

\* the value a document holds for a primitive
DocValue(n) == CHOOSE v \in NewValues(list.nodes[n].def) : TRUE

\* a call that starts with the first of the primitives ns
Item(fn, acc, ns, protect, val) ==
    [acc |-> acc, fn |-> fn, node |-> Head(ns), protect |-> protect, val |-> val,
     phase |-> IF protect THEN "wait" ELSE "body", rest |-> Tail(ns), out |-> <<>>]

\* a call after one of its primitives is done: the next one, or the return
NextItem(o) ==
    IF o.rest = <<>> THEN NoOp
    ELSE [o EXCEPT !.node = Head(o.rest), !.rest = Tail(o.rest),
                   !.val = CASE o.acc = "update" -> DocValue(Head(o.rest))
                             [] o.acc = "read" -> hist.shadow[Head(o.rest)]
                             [] OTHER -> 0,
                   !.phase = IF o.protect THEN "wait" ELSE "body"]

\* after the switch: on to sem_post and the return
AfterBody(o) == [o EXCEPT !.phase = "post"]

\* the value stored for a primitive, read where initializeObject and the
\* defaults put it
StoredValue(m, n) == ReadTyped(m, BasedOffset(list, n), list.nodes[n].type).result

\* the calls a caller makes: on the fields of the composite it has captured
\* without protect; otherwise with protect, or without by a caller that
\* tolerates torn values
Callable(p, n, protect) ==
    IF cap[p].open THEN ~protect /\ Parent(n) = cap[p].node
    ELSE protect \/ hist.loose

\* doubleValue, longValue, intValue, boolValue, readString: the call.  With
\* it goes what the last update of the node that had returned by then wrote
ReadCall(p) ==
    /\ Ready(p)
    /\ \E n \in Primitives(list.nodes) : \E protect \in BOOLEAN :
          /\ Callable(p, n, protect)
          /\ op' = [op EXCEPT ![p] = Item("read", "read", <<n>>, protect, hist.shadow[n])]
    /\ UNCHANGED <<schemaVars, resolveVars, segVars, pc, via, initialized, units, held, last, cap, mirror, hist>>

\* updateDouble, updateLong, updateInt, updateBoolean, updateString: the call
UpdateCall(p) ==
    /\ Ready(p)
    /\ hist.updates < hist.budget
    /\ \E n \in Primitives(list.nodes) : \E v \in NewValues(list.nodes[n].def) :
       \E protect \in BOOLEAN :
          /\ Callable(p, n, protect)
          /\ op' = [op EXCEPT ![p] = Item("update", "update", <<n>>, protect, v)]
    /\ hist' = [hist EXCEPT !.updates = @ + 1]
    /\ UNCHANGED <<schemaVars, resolveVars, segVars, pc, via, initialized, units, held, last, cap, mirror>>

\* waitSem( sem ): the wait for a semaphore, which the caller then holds
SemWait(p, s) ==
    /\ semv[s] > 0
    /\ semv' = [semv EXCEPT ![s] = @ - 1]
    /\ held' = [held EXCEPT ![p] = @ \cup {s}]

\* pointer( lst ): the address of a node, the base plus the offset its object
\* has for it
pointer(p, n) == Offset(list, via[p], n)

\* if( protect ) waitSem( lst->sem ).  Below an array an attached object has
\* no semaphore: the pointer was never assigned, and sem_wait on it faults
\* or fails
waitSem(p) ==
    LET o == op[p]
        s == SemOf(list, via[p], o.node)
    IN /\ pc[p] = "ready"
       /\ o.acc # "none"
       /\ o.phase = "wait"
       /\ IF s = NoSem
          THEN /\ \/ /\ pc' = [pc EXCEPT ![p] = "crashed"]
                     /\ op' = [op EXCEPT ![p] = NoOp]
                  \/ /\ op' = [op EXCEPT ![p].phase = "body"]
                     /\ UNCHANGED pc
               /\ UNCHANGED <<semv, held>>
          ELSE /\ SemWait(p, s)
               /\ op' = [op EXCEPT ![p].phase = "body"]
               /\ UNCHANGED pc
       /\ UNCHANGED <<schemaVars, resolveVars, charSigned, mem, now, via, initialized, units, last, cap, mirror, hist>>

\* what a read that starts after the last update of its node has returned is
\* to see: nothing if an update of the node is under way or has returned since
Expected(p) ==
    LET o == op[p]
    IN IF /\ o.acc = "read"
          /\ o.val = hist.shadow[o.node]
          /\ \A q \in Procs : ~(op[q].acc = "update" /\ op[q].node = o.node)
       THEN o.val
       ELSE <<>>

\* what an update that has returned wrote
Returned(p, o) == <<[val |-> o.val, by |-> p]>>

\* the outcome of a call as its caller sees it
Outcome(p, acc, value) ==
    LET n == op[p].node
    IN [by |-> p, acc |-> acc, node |-> n, value |-> value, stored |-> StoredValue(mem, n),
        ts |-> Signed(ReadBytes(mem, list.nodes[n].time, 8)), expect |-> Expected(p)]

\* a read accessor that stamps the time of the node it reads
ReadBodyStamping(p) ==
    LET o == op[p]
        n == o.node
        value == ReadTyped(mem, pointer(p, n), list.nodes[n].type).result
    IN /\ pc[p] = "ready"
       /\ o.acc = "read"
       /\ o.phase = "body"
       /\ mem' = setUpdateTime(mem, list.nodes[n], now)
       /\ last' = Outcome(p, "read", value)
       /\ op' = [op EXCEPT ![p] = AfterBody([o EXCEPT !.out = Append(@, <<n, value>>)])]
       /\ cap' = IF cap[p].open /\ ~o.protect
                 THEN [cap EXCEPT ![p].obs = (n :> value) @@ @]
                 ELSE cap
       /\ UNCHANGED <<schemaVars, resolveVars, charSigned, semv, now, pc, via, initialized, units, held, mirror, hist>>

\* the switch of a read accessor
ReadBody(p) ==
    LET o == op[p]
        n == o.node
        value == ReadTyped(mem, pointer(p, n), list.nodes[n].type).result
    IN /\ pc[p] = "ready"
       /\ o.acc = "read"
       /\ o.phase = "body"
       /\ last' = Outcome(p, "read", value)
       /\ op' = [op EXCEPT ![p] = AfterBody([o EXCEPT !.out = Append(@, <<n, value>>)])]
       /\ cap' = IF cap[p].open /\ ~o.protect
                 THEN [cap EXCEPT ![p].obs = (n :> value) @@ @]
                 ELSE cap
       /\ UNCHANGED <<schemaVars, resolveVars, segVars, pc, via, initialized, units, held, mirror, hist>>

\* the switch of an update accessor, and setUpdateTime( lst ) with the time
\* of day, which is the one read last or a later one
UpdateBody(p) ==
    LET o == op[p]
        n == o.node
        node == list.nodes[n]
        bytes == UpdateTyped(node, o.val)
    IN /\ pc[p] = "ready"
       /\ o.acc = "update"
       /\ o.phase = "body"
       /\ \E t \in now..MaxClock :
             /\ now' = t
             /\ mem' = setUpdateTime(WriteBytes(mem, pointer(p, n), bytes), node, t)
       /\ last' = Outcome(p, "update", o.val)
       /\ op' = [op EXCEPT ![p] = AfterBody(o)]
       /\ cap' = IF cap[p].open /\ ~o.protect
                 THEN [cap EXCEPT ![p].wrote = @ \cup {n}]
                 ELSE cap
       /\ hist' = [hist EXCEPT !.written[n] = @ \cup {o.val}]
       /\ mirror' = Stale(mirror)
       /\ UNCHANGED <<schemaVars, resolveVars, charSigned, semv, pc, via, initialized, units, held>>

\* the bytes of a string up to its NUL, as strncmp and strncpy see them
RECURSIVE StrN(_)
StrN(bytes) ==
    IF bytes = <<>> \/ Head(bytes) = 0 THEN <<>>
    ELSE <<Head(bytes)>> \o StrN(Tail(bytes))

\* strncpy( to, from, size ): the string, then NULs up to size
StrNCpy(bytes) == [i \in 1..Len(bytes) |-> IF i <= Len(StrN(bytes)) THEN bytes[i] ELSE 0]

\* the test of checkChanges: shared against saved, with the hysteresis of
\* the description (hundredths for a double)
Changed(type, share, save, hyst) ==
    CASE type \in {"DOUBLE", "INT64", "INT32"} ->
            \/ Signed(share) > Signed(save) + hyst
            \/ Signed(share) < Signed(save) - hyst
      [] type \in {"INT16", "INT8"} ->
            \/ Unsigned(share) > Unsigned(save) + hyst
            \/ Unsigned(share) < Unsigned(save) - hyst
      [] type = "BOOL" -> share # save
      [] type = "CHAR" -> StrN(share) # StrN(save)

\* LocalCppObj::checkChanges on one primitive, once the shared value is read:
\* the mirror after the test
CheckedMirror(p, o) ==
    LET node == list.nodes[o.node]
        off == pointer(p, o.node)
        save == ReadBytes(mirror[p].buf, off, node.size)
    IN IF o.fn = "checkChanges" /\ Changed(node.type, o.val, save, node.def.hysteresis)
       THEN [mirror[p] EXCEPT !.buf = WriteBytes(@, off,
                                         IF node.type = "CHAR" THEN StrNCpy(o.val) ELSE o.val)]
       ELSE mirror[p]

\* ... and the document of the changes
CheckedOut(p, o) ==
    LET node == list.nodes[o.node]
        save == ReadBytes(mirror[p].buf, pointer(p, o.node), node.size)
    IN IF o.fn = "checkChanges" /\ Changed(node.type, o.val, save, node.def.hysteresis)
       THEN Append(o.out, <<o.node, o.val>>)
       ELSE o.out

\* if( protect ) sem_post( lst->sem ), and the return; after sem_post
\* checkChanges compares the value it read with the one it saved.  Where the
\* semaphore was never assigned sem_post faults or fails
Return(p, o) ==
    /\ op' = [op EXCEPT ![p] = NextItem([o EXCEPT !.out = CheckedOut(p, o)])]
    /\ mirror' = [mirror EXCEPT ![p] = CheckedMirror(p, o)]
    /\ last' = NoLast
    /\ hist' = IF o.acc = "update"
               THEN [hist EXCEPT !.shadow[o.node] = Returned(p, o)]
               ELSE hist
    /\ UNCHANGED pc

\* a bulk operation that keeps the semaphore until its last primitive
semPostAtEnd(p) ==
    LET o == op[p]
        s == SemOf(list, via[p], o.node)
    IN /\ pc[p] = "ready"
       /\ o.acc # "none"
       /\ o.phase = "post"
       /\ s # NoSem
       /\ IF o.protect /\ o.rest = <<>>
          THEN /\ semv' = [semv EXCEPT ![s] = @ + 1]
               /\ held' = [held EXCEPT ![p] = @ \ {s}]
          ELSE UNCHANGED <<semv, held>>
       /\ Return(p, o)
       /\ UNCHANGED <<schemaVars, resolveVars, charSigned, mem, now, via, initialized, units, cap>>

semPost(p) ==
    LET o == op[p]
        s == SemOf(list, via[p], o.node)
    IN /\ pc[p] = "ready"
       /\ o.acc # "none"
       /\ o.phase = "post"
       /\ CASE ~o.protect ->
                 /\ Return(p, o)
                 /\ UNCHANGED <<semv, held>>
            [] o.protect /\ s = NoSem ->
                 /\ \/ /\ pc' = [pc EXCEPT ![p] = "crashed"]
                       /\ op' = [op EXCEPT ![p] = NoOp]
                       /\ UNCHANGED <<last, mirror, hist>>
                    \/ Return(p, o)
                 /\ UNCHANGED <<semv, held>>
            [] o.protect /\ s # NoSem ->
                 /\ semv' = [semv EXCEPT ![s] = @ + 1]
                 /\ held' = [held EXCEPT ![p] = @ \ {s}]
                 /\ Return(p, o)
       /\ UNCHANGED <<schemaVars, resolveVars, charSigned, mem, now, via, initialized, units, cap>>

(***************************************************************************)
(* Capturing the semaphore of a composite: waitSem( path ), calls without  *)
(* protect on its fields, postSem( path ).                                 *)
(***************************************************************************)
\* the fields of a composite that are primitives
Fields(c) == {n \in Primitives(list.nodes) : Parent(n) = c}

\* the values stored for the fields of a composite
FieldValues(m, c) == [n \in Fields(c) |-> StoredValue(m, n)]

\* the composites whose semaphore the object has opened
Capturable(p) ==
    {c \in Composites(list.nodes) : SemOf(list, via[p], c) # NoSem /\ Fields(c) # {}}

\* a waitSem( path ) that returns without the semaphore
CaptureNoWait(p) ==
    /\ Ready(p)
    /\ ~cap[p].open
    /\ hist.captures < MaxCaptures
    /\ hist' = [hist EXCEPT !.captures = @ + 1]
    /\ \E c \in Capturable(p) :
          cap' = [cap EXCEPT ![p] = [node |-> c, open |-> TRUE, sem |-> SemOf(list, via[p], c),
                                     before |-> FieldValues(mem, c),
                                     obs |-> <<>>, wrote |-> {}]]
    /\ UNCHANGED <<schemaVars, resolveVars, segVars, pc, via, initialized, units, held, op, last, mirror>>

\* waitSem( path ): getPointer, then waitSem on the semaphore of the node
CaptureWait(p) ==
    /\ Ready(p)
    /\ ~cap[p].open
    /\ hist.captures < MaxCaptures
    /\ hist' = [hist EXCEPT !.captures = @ + 1]
    /\ \E c \in Capturable(p) :
          LET s == SemOf(list, via[p], c)
          IN /\ SemWait(p, s)
             /\ cap' = [cap EXCEPT ![p] = [node |-> c, open |-> TRUE, sem |-> s,
                                           before |-> FieldValues(mem, c),
                                           obs |-> <<>>, wrote |-> {}]]
    /\ UNCHANGED <<schemaVars, resolveVars, charSigned, mem, now, pc, via, initialized, units, op, last, mirror>>

\* postSem( path ): getPointer, then sem_post on the semaphore of the node
CapturePost(p) ==
    /\ Ready(p)
    /\ cap[p].open
    /\ semv' = [semv EXCEPT ![cap[p].sem] = @ + 1]
    /\ held' = [held EXCEPT ![p] = @ \ {cap[p].sem}]
    /\ cap' = [cap EXCEPT ![p].open = FALSE, ![p].before = <<>>]
    /\ hist' = IF Cardinality(cap[p].wrote) >= 2
               THEN [hist EXCEPT !.batch = [by |-> p, sem |-> cap[p].sem,
                                            before |-> cap[p].before,
                                            after |-> FieldValues(mem, cap[p].node),
                                            nodes |-> cap[p].wrote]]
               ELSE hist
    /\ UNCHANGED <<schemaVars, resolveVars, charSigned, mem, now, pc, via, initialized, units, op, last, mirror>>

(***************************************************************************)
(* The bulk operations: each goes through the primitives below a node.     *)
(***************************************************************************)
\* the nodes a bulk operation is called on
BulkNodes == {c \in Composites(list.nodes) : c # <<>> /\ PrimsBelow(list.nodes, c) # <<>>}

\* toCppON( lst ): toCOMap and toCOArray descend, each primitive is read by
\* its own conversion
toCppON(p) ==
    /\ Ready(p)
    /\ ~cap[p].open
    /\ \E c \in BulkNodes :
          LET ns == PrimsBelow(list.nodes, c)
          IN op' = [op EXCEPT ![p] = Item("toCppON", "read", ns, TRUE, hist.shadow[Head(ns)])]
    /\ UNCHANGED <<schemaVars, resolveVars, segVars, pc, via, initialized, units, held, last, cap, mirror, hist>>

\* updateObject( lst, obj, protect ) with a document that holds a value for
\* every primitive below the node; updateArray for the arrays in it
updateObject(p) ==
    /\ Ready(p)
    /\ ~cap[p].open
    /\ hist.updates < hist.budget
    /\ \E c \in BulkNodes :
          LET ns == PrimsBelow(list.nodes, c)
          IN op' = [op EXCEPT ![p] = Item("updateObject", "update", ns, TRUE, DocValue(Head(ns)))]
    /\ hist' = [hist EXCEPT !.updates = @ + 1]
    /\ UNCHANGED <<schemaVars, resolveVars, segVars, pc, via, initialized, units, held, last, cap, mirror>>

\* LocalCppObj::LocalCppObj: memcpy of the segment into the buffer
LocalCppObj(p) ==
    /\ Ready(p)
    /\ ~cap[p].open
    /\ Cardinality({q \in Procs : mirror[q].node # NULL}) < MaxMirrors
    /\ \E c \in BulkNodes : mirror' = [mirror EXCEPT ![p] = [node |-> c, buf |-> mem,
                                                           track |-> mirror[p].track,
                                                           seen |-> IF mirror[p].track
                                                                    THEN Primitives(list.nodes)
                                                                    ELSE {},
                                                           again |-> {}]]
    /\ UNCHANGED <<schemaVars, resolveVars, segVars, pc, via, initialized, units, held, op, last, cap, hist>>

\* LocalCppObj::update( objIn ): the call
update(p) ==
    /\ Ready(p)
    /\ ~cap[p].open
    /\ mirror[p].node # NULL
    /\ op' = [op EXCEPT ![p] = Item("update", "copy", PrimsBelow(list.nodes, mirror[p].node), TRUE, 0)]
    /\ UNCHANGED <<schemaVars, resolveVars, segVars, pc, via, initialized, units, held, last, cap, mirror, hist>>

\* ... and the copy of one primitive from the segment into the buffer
CopyBody(p) ==
    LET o == op[p]
        node == list.nodes[o.node]
        off == pointer(p, o.node)
        bytes == ReadBytes(mem, off, node.size)
    IN /\ pc[p] = "ready"
       /\ o.acc = "copy"
       /\ o.phase = "body"
       /\ mirror' = [mirror EXCEPT ![p] =
                        [Taken(@, o.node, FALSE) EXCEPT !.buf =
                            WriteBytes(@, off, IF node.type = "CHAR" THEN StrNCpy(bytes) ELSE bytes)]]
       /\ last' = Outcome(p, "copy", 0)
       /\ op' = [op EXCEPT ![p] = AfterBody(o)]
       /\ UNCHANGED <<schemaVars, resolveVars, segVars, pc, via, initialized, units, held, cap, hist>>

\* LocalCppObj::checkChanges( rtn, objIn ): the call
checkChanges(p) ==
    /\ Ready(p)
    /\ ~cap[p].open
    /\ mirror[p].node # NULL
    /\ op' = [op EXCEPT ![p] = Item("checkChanges", "check", PrimsBelow(list.nodes, mirror[p].node), TRUE, 0)]
    /\ UNCHANGED <<schemaVars, resolveVars, segVars, pc, via, initialized, units, held, last, cap, mirror, hist>>

\* ... and the read of one shared value
CheckBody(p) ==
    LET o == op[p]
        node == list.nodes[o.node]
    IN /\ pc[p] = "ready"
       /\ o.acc = "check"
       /\ o.phase = "body"
       /\ last' = Outcome(p, "check", 0)
       /\ op' = [op EXCEPT ![p] = AfterBody([o EXCEPT !.val =
                                     ReadBytes(mem, pointer(p, o.node), node.size)])]
       /\ mirror' = [mirror EXCEPT ![p] = Taken(@, o.node, TRUE)]
       /\ UNCHANGED <<schemaVars, resolveVars, segVars, pc, via, initialized, units, held, cap, hist>>

(***************************************************************************)
(* The descriptions the segments are built from.  Names are strings of     *)
(* character codes: "cfg" is <<99, 102, 103>>.                             *)
(***************************************************************************)
NameCfg == <<99, 102, 103>>
NameRev == <<114, 101, 118>>
NameOn == <<111, 110>>
NameData == <<100, 97, 116, 97>>
NameS == <<115>>
NameT == <<116>>
NameZ == <<122>>

\* { "cfg": { "type": "unit", "rev": { "type": "int", "size": 4, "defaultValue": 7 } } }
ConfigRev == UnitDef(NameCfg :> UnitDef(NameRev :> IntDef(4, 7)))

\* the same unit with a second field
ConfigCfg ==
    UnitDef(NameCfg :> UnitDef((NameRev :> IntDef(4, 7)) @@ (NameOn :> BoolDef(TRUE))))

\* an array of three 8 bit integers with the defaults 1, 2, 3, next to the unit
ConfigData ==
    UnitDef((NameData :> ArrayDef(ElementSubs(<<IntDef(1, 1), IntDef(1, 2), IntDef(1, 3)>>)))
         @@ (NameCfg :> UnitDef(NameRev :> IntDef(4, 7))))

\* a string at the top and a string in a unit
ConfigStr ==
    UnitDef((NameS :> StringDef(4, <<97, 98, 99>>))
         @@ (NameZ :> UnitDef(NameT :> StringDef(8, <<104, 101, 108, 108, 111>>))))

AttachConfigs == {ConfigRev, ConfigData, ConfigStr}

(***************************************************************************)
(* Processes that construct their objects on one segment and then call     *)
(* the typed accessors.                                                    *)
(***************************************************************************)
Init ==
    /\ config \in AttachConfigs
    /\ list = initializeObject(config)
    /\ rsPath = NULL
    /\ rsRes = NULL
    /\ NewSegment(list)
    /\ NoObjects
    /\ hist = NoHist(list, MaxUpdates, FALSE)

Next ==
    \/ \E p \in Procs :
          \/ Construct(p)
          \/ Check5A(p)
          \/ WaitInit(p)
          \/ PostInit(p)
          \/ CheckA5(p)
          \/ InitMark(p)
          \/ InitClear(p)
          \/ InitHeader(p)
          \/ InitDefault(p)
          \/ InitDone(p)
          \/ AttachDone(p)
          \/ ReadCall(p)
          \/ UpdateCall(p)
          \/ waitSem(p)
          \/ ReadBody(p)
          \/ UpdateBody(p)
          \/ semPost(p)

Spec == Init /\ [][Next]_vars

(***************************************************************************)
(* Processes whose objects are constructed, one after the other, on one    *)
(* segment, and that call the accessors, capture semaphores and run the    *)
(* bulk operations.                                                        *)
(***************************************************************************)
AccessConfigs == {ConfigData}

\* the segment once an initializer is through with it
InitializedSegment(L, r) ==
    LET zero == [a \in 0..(L.size - 1) |-> 0]
        header == ZeroBytes(WriteHeader(zero, r), 32, L.start.dbl - 32)
    IN [StoreDefaults(header, L, PrimsBelow(L.nodes, <<>>)) EXCEPT ![0] = 165]

\* whether the object of process p went through the initializer: the first
\* always, a later one where the header does not pass the test
Initializer(p) == p = 1 \/ charSigned

InitAccess ==
    /\ config \in AccessConfigs
    /\ list = initializeObject(config)
    /\ rsPath = NULL
    /\ rsRes = NULL
    /\ charSigned \in BOOLEAN
    /\ mem = InitializedSegment(list, 1)
    /\ semv = [k \in 0..(NumSems(list) - 1) |->
                 IF k = 0 THEN 1 + Cardinality({p \in Procs : Initializer(p)}) ELSE 1]
    /\ now = MaxClock
    /\ pc = [p \in Procs |-> "ready"]
    /\ via = [p \in Procs |-> IF Initializer(p) THEN "init" ELSE "attach"]
    /\ initialized = [p \in Procs |-> Initializer(p)]
    /\ units = [p \in Procs |-> IF Initializer(p) THEN Len(list.nodes[<<>>].names) ELSE 0]
    /\ held = [p \in Procs |-> {}]
    /\ op = [p \in Procs |-> NoOp]
    /\ last = NoLast
    /\ cap = [p \in Procs |-> NoCap]
    /\ mirror = [p \in Procs |-> NoMirror]
    /\ hist = [NoHist(list, MaxUpdates, TRUE) EXCEPT
                  !.foundValid = [p \in Procs |-> p # 1],
                  !.wrote = [p \in Procs |-> Initializer(p)]]

NextAccess ==
    \E p \in Procs :
        \/ ReadCall(p)
        \/ UpdateCall(p)
        \/ waitSem(p)
        \/ ReadBody(p)
        \/ UpdateBody(p)
        \/ semPost(p)
        \/ toCppON(p)
        \/ updateObject(p)
        \/ LocalCppObj(p)
        \/ update(p)
        \/ CopyBody(p)
        \/ checkChanges(p)
        \/ CheckBody(p)

SpecAccess == InitAccess /\ [][NextAccess]_vars

(***************************************************************************)
(* Processes that capture the semaphore of a composite and call the        *)
(* accessors on its fields without protect, next to processes that call    *)
(* them with protect.                                                      *)
(***************************************************************************)
CaptureConfigs == {ConfigCfg}

InitCapture ==
    /\ config \in CaptureConfigs
    /\ list = initializeObject(config)
    /\ rsPath = NULL
    /\ rsRes = NULL
    /\ charSigned \in BOOLEAN
    /\ mem = InitializedSegment(list, 1)
    /\ semv = [k \in 0..(NumSems(list) - 1) |->
                 IF k = 0 THEN 1 + Cardinality({p \in Procs : Initializer(p)}) ELSE 1]
    /\ now = MaxClock
    /\ pc = [p \in Procs |-> "ready"]
    /\ via = [p \in Procs |-> IF Initializer(p) THEN "init" ELSE "attach"]
    /\ initialized = [p \in Procs |-> Initializer(p)]
    /\ units = [p \in Procs |-> IF Initializer(p) THEN Len(list.nodes[<<>>].names) ELSE 0]
    /\ held = [p \in Procs |-> {}]
    /\ op = [p \in Procs |-> NoOp]
    /\ last = NoLast
    /\ cap = [p \in Procs |-> NoCap]
    /\ mirror = [p \in Procs |-> NoMirror]
    /\ hist = [NoHist(list, MaxBatch, FALSE) EXCEPT
                  !.foundValid = [p \in Procs |-> p # 1],
                  !.wrote = [p \in Procs |-> Initializer(p)]]

NextCapture ==
    \E p \in Procs :
        \/ CaptureWait(p)
        \/ CapturePost(p)
        \/ ReadCall(p)
        \/ UpdateCall(p)
        \/ waitSem(p)
        \/ ReadBody(p)
        \/ UpdateBody(p)
        \/ semPost(p)

SpecCapture == InitCapture /\ [][NextCapture]_vars

(***************************************************************************)
(* Processes that update a primitive of any type with a value of its       *)
(* domain and read it back.                                                *)
(***************************************************************************)
NameI8 == <<98>>
NameI16 == <<104>>
NameI32 == <<105>>
NameI64 == <<108>>
NameF64 == <<102>>
NameBool == <<111>>
NameStr == <<115>>

\* the length of the strings of the array below
LongSize == 40

\* a unit that holds one primitive of each type
ConfigKinds ==
    UnitDef(NameCfg :> UnitDef((NameI8 :> IntDef(1, 1)) @@ (NameI16 :> IntDef(2, 2))
                            @@ (NameI32 :> IntDef(4, 3)) @@ (NameI64 :> IntDef(8, 4))
                            @@ (NameF64 :> FloatDef(150, 0)) @@ (NameBool :> BoolDef(FALSE))
                            @@ (NameStr :> StringDef(4, <<97>>))))

\* an array of one string
ConfigLong == UnitDef(NameData :> ArrayDef(ElementSubs(<<StringDef(LongSize, <<97>>)>>)))

RoundConfigs == {ConfigKinds, ConfigLong}

\* a string of n characters
Filled(n) == [i \in 1..n |-> 120]

\* values of the domain of each type: the ends, 0, -1 and one in between
\* (for 64 bits: of the part the integers of the checker hold)
KindValues(def) ==
    CASE PrimType(def) = "INT8" -> {-128, -1, 0, 127}
      [] PrimType(def) = "INT16" -> {-32768, -1, 0, 300, 32767}
      [] PrimType(def) = "INT32" -> {-2147483647, -1, 0, 70000, 2147483647}
      [] PrimType(def) = "INT64" -> {-2147483647, -1, 0, 70000, 2147483647}
      [] PrimType(def) = "DOUBLE" -> {-250, 0, 1, 99999}
      [] PrimType(def) = "BOOL" -> BOOLEAN
      [] PrimType(def) = "CHAR" -> {Filled(n) : n \in {0, 1, def.size - 2, def.size - 1}}

\* an update accessor called with a value of the domain of the node
UpdateAny(p) ==
    /\ Ready(p)
    /\ hist.updates < hist.budget
    /\ \E n \in Primitives(list.nodes) : \E v \in KindValues(list.nodes[n].def) :
       \E protect \in BOOLEAN :
          /\ Callable(p, n, protect)
          /\ op' = [op EXCEPT ![p] = Item("update", "update", <<n>>, protect, v)]
    /\ hist' = [hist EXCEPT !.updates = @ + 1]
    /\ UNCHANGED <<schemaVars, resolveVars, segVars, pc, via, initialized, units, held, last, cap, mirror>>

InitRound ==
    /\ config \in RoundConfigs
    /\ list = initializeObject(config)
    /\ rsPath = NULL
    /\ rsRes = NULL
    /\ charSigned \in BOOLEAN
    /\ mem = InitializedSegment(list, 1)
    /\ semv = [k \in 0..(NumSems(list) - 1) |->
                 IF k = 0 THEN 1 + Cardinality({p \in Procs : Initializer(p)}) ELSE 1]
    /\ now = MaxClock
    /\ pc = [p \in Procs |-> "ready"]
    /\ via = [p \in Procs |-> IF Initializer(p) THEN "init" ELSE "attach"]
    /\ initialized = [p \in Procs |-> Initializer(p)]
    /\ units = [p \in Procs |-> IF Initializer(p) THEN Len(list.nodes[<<>>].names) ELSE 0]
    /\ held = [p \in Procs |-> {}]
    /\ op = [p \in Procs |-> NoOp]
    /\ last = NoLast
    /\ cap = [p \in Procs |-> NoCap]
    /\ mirror = [p \in Procs |-> NoMirror]
    /\ hist = [NoHist(list, MaxUpdates, TRUE) EXCEPT
                  !.foundValid = [p \in Procs |-> p # 1],
                  !.wrote = [p \in Procs |-> Initializer(p)]]

NextRound ==
    \E p \in Procs :
        \/ UpdateAny(p)
        \/ ReadCall(p)
        \/ waitSem(p)
        \/ ReadBody(p)
        \/ UpdateBody(p)
        \/ semPost(p)

SpecRound == InitRound /\ [][NextRound]_vars

(***************************************************************************)
(* A process that mirrors numeric nodes with a hysteresis, next to a       *)
(* writer that stores values around the ones the mirror holds.             *)
(***************************************************************************)
\* a unit of numeric nodes with a hysteresis: a float at 1.00 (0.50), an
\* int32 at 10 (2), an int16 at 0 (2), an int8 at -1 (2), an int64 at 40 (0)
ConfigHyst ==
    UnitDef(NameCfg :> UnitDef((NameF64 :> FloatDef(100, 50)) @@ (NameI32 :> IntDefH(4, 10, 2))
                            @@ (NameI16 :> IntDefH(2, 0, 2)) @@ (NameI8 :> IntDefH(1, -1, 2))
                            @@ (NameI64 :> IntDefH(8, 40, 0))))

HystConfigs == {ConfigHyst}

\* the values around the default of a node: at the hysteresis, and one beyond
HystValues(def) ==
    IF def.type \in {"int", "float"}
    THEN {def.defaultValue + x : x \in {-(def.hysteresis + 1), -def.hysteresis, 0,
                                        def.hysteresis, def.hysteresis + 1}}
    ELSE NewValues(def)

\* an update accessor called with a value around the default of the node
UpdateNear(p) ==
    /\ Ready(p)
    /\ hist.updates < hist.budget
    /\ \E n \in Primitives(list.nodes) : \E v \in HystValues(list.nodes[n].def) :
          op' = [op EXCEPT ![p] = Item("update", "update", <<n>>, TRUE, v)]
    /\ hist' = [hist EXCEPT !.updates = @ + 1]
    /\ UNCHANGED <<schemaVars, resolveVars, segVars, pc, via, initialized, units, held, last, cap, mirror>>

\* LocalCppObj::checkChanges( path, rst ): the call on one primitive
checkChangesAt(p) ==
    /\ Ready(p)
    /\ mirror[p].node # NULL
    /\ \E n \in Primitives(list.nodes) :
          /\ IsPrefix(mirror[p].node, n)
          /\ op' = [op EXCEPT ![p] = Item("checkChanges", "check", <<n>>, TRUE, 0)]
    /\ UNCHANGED <<schemaVars, resolveVars, segVars, pc, via, initialized, units, held, last, cap, mirror, hist>>

InitHyst ==
    /\ config \in HystConfigs
    /\ list = initializeObject(config)
    /\ rsPath = NULL
    /\ rsRes = NULL
    /\ charSigned \in BOOLEAN
    /\ mem = InitializedSegment(list, 1)
    /\ semv = [k \in 0..(NumSems(list) - 1) |->
                 IF k = 0 THEN 1 + Cardinality({p \in Procs : Initializer(p)}) ELSE 1]
    /\ now = MaxClock
    /\ pc = [p \in Procs |-> "ready"]
    /\ via = [p \in Procs |-> IF Initializer(p) THEN "init" ELSE "attach"]
    /\ initialized = [p \in Procs |-> Initializer(p)]
    /\ units = [p \in Procs |-> IF Initializer(p) THEN Len(list.nodes[<<>>].names) ELSE 0]
    /\ held = [p \in Procs |-> {}]
    /\ op = [p \in Procs |-> NoOp]
    /\ last = NoLast
    /\ cap = [p \in Procs |-> NoCap]
    /\ mirror = [p \in Procs |-> NoMirror]
    /\ hist = [NoHist(list, MaxWrites, FALSE) EXCEPT
                  !.foundValid = [p \in Procs |-> p # 1],
                  !.wrote = [p \in Procs |-> Initializer(p)]]

NextHyst ==
    \E p \in Procs :
        \/ LocalCppObj(p)
        \/ UpdateNear(p)
        \/ waitSem(p)
        \/ UpdateBody(p)
        \/ semPost(p)
        \/ checkChangesAt(p)
        \/ checkChanges(p)
        \/ CheckBody(p)

SpecHyst == InitHyst /\ [][NextHyst]_vars

(***************************************************************************)
(* A mirror that is checked again and again, with at most QuietWrites      *)
(* writes to the segment.                                                  *)
(***************************************************************************)
QuietWrites == 2

\* an int32 and a string in a unit
ConfigPair ==
    UnitDef(NameCfg :> UnitDef((NameI32 :> IntDefH(4, 10, 2)) @@ (NameStr :> StringDef(4, <<97>>))))

\* an array of an int8 with a hysteresis, an int8, a bool and a string
ConfigMix ==
    UnitDef(NameData :> ArrayDef(ElementSubs(<<IntDefH(1, -92, 5), IntDef(1, 1), BoolDef(TRUE),
                                               StringDef(3, <<97>>)>>)))

QuietConfigs == {ConfigPair, ConfigMix}

InitQuiet ==
    /\ config \in QuietConfigs
    /\ list = initializeObject(config)
    /\ rsPath = NULL
    /\ rsRes = NULL
    /\ charSigned \in BOOLEAN
    /\ mem = InitializedSegment(list, 1)
    /\ semv = [k \in 0..(NumSems(list) - 1) |->
                 IF k = 0 THEN 1 + Cardinality({p \in Procs : Initializer(p)}) ELSE 1]
    /\ now = MaxClock
    /\ pc = [p \in Procs |-> "ready"]
    /\ via = [p \in Procs |-> IF Initializer(p) THEN "init" ELSE "attach"]
    /\ initialized = [p \in Procs |-> Initializer(p)]
    /\ units = [p \in Procs |-> IF Initializer(p) THEN Len(list.nodes[<<>>].names) ELSE 0]
    /\ held = [p \in Procs |-> {}]
    /\ op = [p \in Procs |-> NoOp]
    /\ last = NoLast
    /\ cap = [p \in Procs |-> NoCap]
    /\ mirror = [p \in Procs |-> Tracked]
    /\ hist = [NoHist(list, QuietWrites, FALSE) EXCEPT
                  !.foundValid = [p \in Procs |-> p # 1],
                  !.wrote = [p \in Procs |-> Initializer(p)]]

NextQuiet ==
    \E p \in Procs :
        \/ LocalCppObj(p)
        \/ UpdateNear(p)
        \/ waitSem(p)
        \/ UpdateBody(p)
        \/ semPost(p)
        \/ checkChanges(p)
        \/ CheckBody(p)

SpecQuiet == InitQuiet /\ [][NextQuiet]_vars

(***************************************************************************)
(* Objects constructed one after the other on a segment that is new, each  *)
(* one once the one before is through, with headers of many random bytes.  *)
(***************************************************************************)
\* the values random() is taken to deliver for the bytes 17 .. 19, the last
\* of which the bytes 20 .. 29 count up from
TailBytes == {1, 100, 246, 254}

\* the bytes 1 .. 19: one value for the bytes 1 .. 16, any for the others
HeaderChoices ==
    {[i \in 1..19 |-> IF i < 17 THEN f ELSE t[i - 16]] :
        f \in RandomBytes, t \in [1..3 -> TailBytes]}

\* the header the initializer writes after byte 0 for the random bytes rs:
\* out[ i ] = out[ i - 1 ] + 1 for the bytes 20 .. 29, s seeded with 0xA5
HeaderOf(m, rs) ==
    LET h == [i \in 1..29 |-> IF i < 20 THEN rs[i] ELSE (rs[19] + (i - 19)) % 256]
        s == (165 + SumTo([i \in 0..29 |-> IF i = 0 THEN 0 ELSE h[i]], 29)) % 65536
    IN WriteBytes(m, 1, h \o <<s % 256, s \div 256>>)

\* SCppObj::SCppObj by a process while no other is in its constructor
ConstructNext(p) ==
    /\ pc[p] = "idle"
    /\ \A q \in Procs : pc[q] \in {"idle", "ready", "crashed"}
    /\ pc' = [pc EXCEPT ![p] = "check5A"]
    /\ UNCHANGED <<schemaVars, resolveVars, segVars, via, initialized, units, held, op, last, cap, mirror, hist>>

\* the header bytes 1 .. 31 for any of the random bytes
InitHeaderAny(p) ==
    /\ pc[p] = "header"
    /\ \E rs \in HeaderChoices :
          mem' = ZeroBytes(HeaderOf(mem, rs), 32, list.start.dbl - 32)
    /\ units' = [units EXCEPT ![p] = 0]
    /\ pc' = [pc EXCEPT ![p] = "defaults"]
    /\ UNCHANGED <<schemaVars, resolveVars, charSigned, semv, now, via, initialized, held, op, last, cap, mirror, hist>>

HeaderConfigs == {ConfigCfg}

InitHeaders ==
    /\ config \in HeaderConfigs
    /\ list = initializeObject(config)
    /\ rsPath = NULL
    /\ rsRes = NULL
    /\ NewSegment(list)
    /\ NoObjects
    /\ hist = NoHist(list, MaxUpdates, FALSE)

NextHeaders ==
    \E p \in Procs :
        \/ ConstructNext(p)
        \/ Check5A(p)
        \/ CheckA5(p)
        \/ InitMark(p)
        \/ InitClear(p)
        \/ InitHeaderAny(p)
        \/ InitDefault(p)
        \/ InitDone(p)
        \/ AttachDone(p)

SpecHeaders == InitHeaders /\ [][NextHeaders]_vars

(***************************************************************************)
(* Objects constructed one after the other on a segment that is there and  *)
(* does not hold what an initializer leaves.                               *)
(***************************************************************************)
\* a valid header before a payload of junk, every byte 9
JunkSegment(L) ==
    [WriteHeader([a \in 0..(L.size - 1) |-> 9], 1) EXCEPT ![0] = 165]

\* the segments found: byte 0 neither 0x5A nor 0xA5, or 0xA5 with one byte
\* of the header changed so that the test fails
CorruptSegments(L) ==
    {m \in {[JunkSegment(L) EXCEPT ![k] = v] : k \in {0, 5, 19, 25, 30, 31}, v \in {0, 77, 255}} :
        ~ValidHeader(m, FALSE)}

CorruptConfigs == {ConfigCfg}

InitCorrupt ==
    /\ config \in CorruptConfigs
    /\ list = initializeObject(config)
    /\ rsPath = NULL
    /\ rsRes = NULL
    /\ charSigned \in BOOLEAN
    /\ mem \in CorruptSegments(list)
    /\ semv = [k \in 0..(NumSems(list) - 1) |-> 1]
    /\ now = 1
    /\ NoObjects
    /\ hist = NoHist(list, MaxUpdates, FALSE)

NextCorrupt ==
    \E p \in Procs :
        \/ ConstructNext(p)
        \/ Check5A(p)
        \/ CheckA5(p)
        \/ InitMark(p)
        \/ InitClear(p)
        \/ InitHeader(p)
        \/ InitDefault(p)
        \/ InitDone(p)
        \/ AttachDone(p)

SpecCorrupt == InitCorrupt /\ [][NextCorrupt]_vars

(***************************************************************************)
(* Objects that are destroyed and constructed again: one object at a time  *)
(* on a segment that the first of them has initialized.                    *)
(***************************************************************************)
\* SCppObj::~SCppObj: the tree is deleted, the semaphores are closed and the
\* segment is unmapped; nothing is unlinked and nothing is stored
Destroy(p) ==
    /\ Ready(p)
    /\ held[p] = {}
    /\ ~cap[p].open
    /\ pc' = [pc EXCEPT ![p] = "idle"]
    /\ via' = [via EXCEPT ![p] = "none"]
    /\ initialized' = [initialized EXCEPT ![p] = FALSE]
    /\ units' = [units EXCEPT ![p] = 0]
    /\ hist' = [hist EXCEPT !.foundValid[p] = FALSE, !.wrote[p] = FALSE]
    /\ UNCHANGED <<schemaVars, resolveVars, segVars, held, op, last, cap, mirror>>

\* SCppObj::SCppObj by a process while there is no other object.  Each
\* initializer posts the init semaphore once more: objects are constructed
\* until its count has passed MaxInitPosts
ConstructAlone(p) ==
    /\ \A q \in Procs : pc[q] = "idle"
    /\ semv[0] <= MaxInitPosts
    /\ pc' = [pc EXCEPT ![p] = "check5A"]
    /\ UNCHANGED <<schemaVars, resolveVars, segVars, via, initialized, units, held, op, last, cap, mirror, hist>>

PersistConfigs == {ConfigCfg}

InitPersist ==
    /\ config \in PersistConfigs
    /\ list = initializeObject(config)
    /\ rsPath = NULL
    /\ rsRes = NULL
    /\ charSigned \in BOOLEAN
    /\ \E r \in RandomBytes : mem = InitializedSegment(list, r)
    /\ semv = [k \in 0..(NumSems(list) - 1) |-> 1]
    /\ now = 1
    /\ pc = [p \in Procs |-> IF p = 1 THEN "ready" ELSE "idle"]
    /\ via = [p \in Procs |-> IF p = 1 THEN "init" ELSE "none"]
    /\ initialized = [p \in Procs |-> p = 1]
    /\ units = [p \in Procs |-> IF p = 1 THEN Len(list.nodes[<<>>].names) ELSE 0]
    /\ held = [p \in Procs |-> {}]
    /\ op = [p \in Procs |-> NoOp]
    /\ last = NoLast
    /\ cap = [p \in Procs |-> NoCap]
    /\ mirror = [p \in Procs |-> NoMirror]
    /\ hist = [NoHist(list, MaxUpdates, FALSE) EXCEPT !.wrote = [p \in Procs |-> p = 1]]

NextPersist ==
    \E p \in Procs :
        \/ Destroy(p)
        \/ ConstructAlone(p)
        \/ Check5A(p)
        \/ CheckA5(p)
        \/ InitMark(p)
        \/ InitClear(p)
        \/ InitHeader(p)
        \/ InitDefault(p)
        \/ InitDone(p)
        \/ AttachDone(p)
        \/ ReadCall(p)
        \/ UpdateCall(p)
        \/ waitSem(p)
        \/ ReadBody(p)
        \/ UpdateBody(p)
        \/ semPost(p)

SpecPersist == InitPersist /\ [][NextPersist]_vars

(***************************************************************************)
(* Processes that read in every way there is, next to one update.          *)
(***************************************************************************)
\* sync( obj, lst ): syncMap and syncArray descend, each primitive is read
\* without its semaphore and put into the document where it differs.  For
\* the types of ReadConfigs the value is the one of the typed accessor
sync(p) ==
    /\ Ready(p)
    /\ ~cap[p].open
    /\ \E c \in BulkNodes :
          LET ns == PrimsBelow(list.nodes, c)
          IN op' = [op EXCEPT ![p] = Item("sync", "read", ns, FALSE, hist.shadow[Head(ns)])]
    /\ UNCHANGED <<schemaVars, resolveVars, segVars, pc, via, initialized, units, held, last, cap, mirror, hist>>

\* equals( obj, lst ): each primitive is read without its semaphore and
\* compared with the one of the document
equals(p) ==
    /\ Ready(p)
    /\ ~cap[p].open
    /\ \E c \in BulkNodes :
          LET ns == PrimsBelow(list.nodes, c)
          IN op' = [op EXCEPT ![p] = Item("equals", "read", ns, FALSE, hist.shadow[Head(ns)])]
    /\ UNCHANGED <<schemaVars, resolveVars, segVars, pc, via, initialized, units, held, last, cap, mirror, hist>>

ReadConfigs == {ConfigCfg}

InitReads ==
    /\ config \in ReadConfigs
    /\ list = initializeObject(config)
    /\ rsPath = NULL
    /\ rsRes = NULL
    /\ charSigned \in BOOLEAN
    /\ mem = InitializedSegment(list, 1)
    /\ semv = [k \in 0..(NumSems(list) - 1) |->
                 IF k = 0 THEN 1 + Cardinality({p \in Procs : Initializer(p)}) ELSE 1]
    /\ now = MaxClock
    /\ pc = [p \in Procs |-> "ready"]
    /\ via = [p \in Procs |-> IF Initializer(p) THEN "init" ELSE "attach"]
    /\ initialized = [p \in Procs |-> Initializer(p)]
    /\ units = [p \in Procs |-> IF Initializer(p) THEN Len(list.nodes[<<>>].names) ELSE 0]
    /\ held = [p \in Procs |-> {}]
    /\ op = [p \in Procs |-> NoOp]
    /\ last = NoLast
    /\ cap = [p \in Procs |-> NoCap]
    /\ mirror = [p \in Procs |-> NoMirror]
    /\ hist = [NoHist(list, MaxUpdates, FALSE) EXCEPT
                  !.foundValid = [p \in Procs |-> p # 1],
                  !.wrote = [p \in Procs |-> Initializer(p)]]

NextReads ==
    \E p \in Procs :
        \/ ReadCall(p)
        \/ UpdateCall(p)
        \/ waitSem(p)
        \/ ReadBody(p)
        \/ UpdateBody(p)
        \/ semPost(p)
        \/ toCppON(p)
        \/ sync(p)
        \/ equals(p)
        \/ LocalCppObj(p)
        \/ update(p)
        \/ CopyBody(p)
        \/ checkChanges(p)
        \/ CheckBody(p)

SpecReads == InitReads /\ [][NextReads]_vars

(***************************************************************************)
(* The layout of a segment: objects constructed from descriptions of every *)
(* kind of primitive, at the top level, in a unit and in an array, and the *)
(* addresses they have for their nodes.                                    *)
(***************************************************************************)
\* one description per kind of primitive
LayoutDefs ==
    {IntDef(1, 1), IntDef(2, 2), IntDef(4, 3), IntDef(8, 4), FloatDef(150, 0), BoolDef(TRUE),
     StringDef(4, <<97>>)}

\* a primitive at the top level before and after a unit and an array of two
LayoutConfig(a, b, c) ==
    UnitDef((<<97>> :> a) @@ (NameCfg :> UnitDef((NameS :> b) @@ (NameT :> c)))
            @@ (NameData :> ArrayDef(ElementSubs(<<b, c>>))) @@ (NameZ :> a))

LayoutConfigs == {LayoutConfig(a, b, c) : a, b, c \in LayoutDefs}

\* int16Start = int32Start + int32Offset, ...: where the region of a type ends
RegionEnd(L, r) ==
    CASE r = "dbl" -> L.start.i64
      [] r = "i64" -> L.start.i32
      [] r = "i32" -> L.start.i16
      [] r = "i16" -> L.start.b8
      [] r = "b8" -> L.start.ch
      [] r = "ch" -> L.size

InitLayout ==
    /\ config \in LayoutConfigs
    /\ list = initializeObject(config)
    /\ rsPath = NULL
    /\ rsRes = NULL
    /\ charSigned = FALSE
    /\ mem = <<>>
    /\ semv = <<>>
    /\ now = 1
    /\ pc = [p \in Procs |-> "ready"]
    /\ via \in [Procs -> {"init", "attach"}]
    /\ initialized = [p \in Procs |-> via[p] = "init"]
    /\ units = [p \in Procs |-> 0]
    /\ held = [p \in Procs |-> {}]
    /\ op = [p \in Procs |-> NoOp]
    /\ last = NoLast
    /\ cap = [p \in Procs |-> NoCap]
    /\ mirror = [p \in Procs |-> NoMirror]
    /\ hist = NoHist(list, MaxUpdates, FALSE)

\* pointer( lst ) on a primitive: the address the object has for its data,
\* next to the one it has for its time
pointerOf(p) ==
    /\ last = NoLast
    /\ \E n \in Primitives(list.nodes) :
          last' = [by |-> p, acc |-> "pointer", node |-> n, value |-> pointer(p, n),
                   time |-> list.nodes[n].time]
    /\ UNCHANGED <<schemaVars, resolveVars, segVars, pc, via, initialized, units, held, op, cap, mirror, hist>>

\* pointer( lst ) on two primitives
pointerOfTwo(p) ==
    /\ last = NoLast
    /\ \E a, b \in Primitives(list.nodes) :
          /\ a # b
          /\ last' = [by |-> p, acc |-> "pointers", node |-> a, other |-> b,
                      value |-> pointer(p, a), otherValue |-> pointer(p, b)]
    /\ UNCHANGED <<schemaVars, resolveVars, segVars, pc, via, initialized, units, held, op, cap, mirror, hist>>

NextLayout == \E p \in Procs : pointerOf(p) \/ pointerOfTwo(p)

SpecLayout == InitLayout /\ [][NextLayout]_vars

(***************************************************************************)
(* Resolving paths: the descriptions and the paths tried.                  *)
(***************************************************************************)
RECURSIVE NamesOfLen(_)
NamesOfLen(n) ==
    IF n = 0 THEN {<<>>}
    ELSE {s \o <<c>> : s \in NamesOfLen(n - 1), c \in Alphabet}

Names == UNION {NamesOfLen(n) : n \in 1..MaxNameLen}

NameSets == {S \in SUBSET Names : Cardinality(S) \in 1..MaxSiblings}

\* the names S at the top; the child u is a unit that holds the names S again
NameConfig(S, u) ==
    UnitDef([n \in S |-> IF n = u THEN UnitDef([m \in S |-> IntDef(4, 0)])
                         ELSE IntDef(4, 0)])

NameA == <<97>>
NameB == <<98>>

\* an array "a" of n elements, and a unit "b" that holds another one
ArrayConfig(n) ==
    UnitDef((NameA :> ArrayDef(ElementSubs([i \in 1..n |-> IntDef(1, i)])))
         @@ (NameB :> UnitDef(NameA :> ArrayDef(ElementSubs([i \in 1..n |-> BoolDef(TRUE)])))))

ResolveConfigs ==
    {NameConfig(S, u) : <<S, u>> \in {<<S, u>> \in NameSets \X Names : u \in S}}
    \cup {ArrayConfig(n) : n \in 0..MaxArrayLen}

\* the path of a node: the names from the top joined by a separator
RECURSIVE PathOf(_, _, _)
PathOf(nodes, id, sep) ==
    IF Len(id) = 1 THEN nodes[id].name
    ELSE PathOf(nodes, SubSeq(id, 1, Len(id) - 1), sep) \o <<sep>> \o nodes[id].name

NodeIds(nodes) == DOMAIN nodes \ {<<>>}

ArrayNodes(nodes) == {a \in NodeIds(nodes) : nodes[a].type = "ARRAY"}

\* the nodes all of whose ancestors are units
UnitReached(nodes) ==
    {n \in NodeIds(nodes) : \A k \in 0..(Len(n) - 1) : nodes[SubSeq(n, 1, k)].type = "UNIT"}

IndexPath(nodes, a, i, sep) == PathOf(nodes, a, sep) \o <<sep>> \o to_string(i)

\* the paths that go one segment below a node: a name, or nothing
BelowPaths(nodes) ==
    {PathOf(nodes, n, sep) \o <<sep>> \o m :
        n \in NodeIds(nodes), sep \in Separators, m \in Names \cup {<<>>}}

CandidatePaths(nodes) ==
    {PathOf(nodes, n, sep) : n \in NodeIds(nodes), sep \in Separators}
    \cup {IndexPath(nodes, a, i, sep) :
            a \in ArrayNodes(nodes), i \in 0..(MaxArrayLen + 1), sep \in Separators}
    \cup Names
    \cup BelowPaths(nodes)

\* no segment and no process: only the tree of an object is looked at
NoSegment ==
    /\ charSigned = FALSE
    /\ mem = <<>>
    /\ semv = <<>>
    /\ now = 1

InitResolve ==
    /\ config \in ResolveConfigs
    /\ list = initializeObject(config)
    /\ rsPath = NULL
    /\ rsRes = NULL
    /\ NoSegment
    /\ NoObjects
    /\ hist = NoHist(list, MaxUpdates, FALSE)

\* getElement( path, list ) on a path.  The call changes nothing of the
\* object: a second call gives what it gives as a first one
Resolve ==
    /\ rsPath = NULL
    /\ \E p \in CandidatePaths(list.nodes) :
          /\ rsPath' = p
          /\ rsRes' = getElement(p, list.nodes, <<>>)
    /\ UNCHANGED <<schemaVars, segVars, procVars, hist>>

NextResolve == Resolve

SpecResolve == InitResolve /\ [][NextResolve]_vars

(***************************************************************************)
(* Processes that update primitives while the clock advances, and that     *)
(* set the update time of a primitive themselves.                          *)
(***************************************************************************)
MaxStamps == 2

\* setUpdateTime( path, lst, t ): the time slot of the node the path names
\* gets the t of the caller; no semaphore, no look at the clock
setUpdateTimeAt(p) ==
    /\ Ready(p)
    /\ \E n \in Primitives(list.nodes) : \E t \in 0..MaxClock :
          mem' = setUpdateTime(mem, list.nodes[n], t)
    /\ UNCHANGED <<schemaVars, resolveVars, charSigned, semv, now, procVars, hist>>

InitStamp ==
    /\ config = ConfigCfg
    /\ list = initializeObject(config)
    /\ rsPath = NULL
    /\ rsRes = NULL
    /\ charSigned \in BOOLEAN
    /\ mem = InitializedSegment(list, 1)
    /\ semv = [k \in 0..(NumSems(list) - 1) |->
                 IF k = 0 THEN 1 + Cardinality({p \in Procs : Initializer(p)}) ELSE 1]
    /\ now = 1
    /\ pc = [p \in Procs |-> "ready"]
    /\ via = [p \in Procs |-> IF Initializer(p) THEN "init" ELSE "attach"]
    /\ initialized = [p \in Procs |-> Initializer(p)]
    /\ units = [p \in Procs |-> IF Initializer(p) THEN Len(list.nodes[<<>>].names) ELSE 0]
    /\ held = [p \in Procs |-> {}]
    /\ op = [p \in Procs |-> NoOp]
    /\ last = NoLast
    /\ cap = [p \in Procs |-> NoCap]
    /\ mirror = [p \in Procs |-> NoMirror]
    /\ hist = [NoHist(list, MaxStamps, FALSE) EXCEPT
                  !.foundValid = [p \in Procs |-> p # 1],
                  !.wrote = [p \in Procs |-> Initializer(p)]]

NextStamp ==
    \E p \in Procs :
        \/ UpdateCall(p)
        \/ waitSem(p)
        \/ UpdateBody(p)
        \/ semPost(p)
        \/ setUpdateTimeAt(p)

SpecStamp == InitStamp /\ [][NextStamp]_vars

(***************************************************************************)
(* Processes that construct their objects on descriptions with units,      *)
(* arrays and units in arrays, and then read through them.                 *)
(***************************************************************************)
\* an array of units, and a unit the loops visit after it
ConfigNest ==
    UnitDef((NameData :> ArrayDef(ElementSubs(<<UnitDef(NameRev :> IntDef(4, 7)),
                                                UnitDef(NameOn :> BoolDef(TRUE))>>)))
         @@ (NameZ :> UnitDef(NameT :> IntDef(1, 3))))

SemConfigs == {ConfigCfg, ConfigData, ConfigNest}

InitSems ==
    /\ config \in SemConfigs
    /\ list = initializeObject(config)
    /\ rsPath = NULL
    /\ rsRes = NULL
    /\ NewSegment(list)
    /\ NoObjects
    /\ hist = NoHist(list, 0, FALSE)

NextSems ==
    \E p \in Procs :
        \/ Construct(p)
        \/ Check5A(p)
        \/ WaitInit(p)
        \/ PostInit(p)
        \/ CheckA5(p)
        \/ InitMark(p)
        \/ InitClear(p)
        \/ InitHeader(p)
        \/ InitDefault(p)
        \/ InitDone(p)
        \/ AttachDone(p)
        \/ ReadCall(p)
        \/ waitSem(p)
        \/ ReadBody(p)
        \/ semPost(p)

SpecSems == InitSems /\ [][NextSems]_vars

(***************************************************************************)
(* A process that captures the semaphore of a unit and updates its fields, *)
(* next to a process that mirrors the unit and checks it for changes.      *)
(***************************************************************************)
InitDetect ==
    /\ config = ConfigCfg
    /\ list = initializeObject(config)
    /\ rsPath = NULL
    /\ rsRes = NULL
    /\ charSigned \in BOOLEAN
    /\ mem = InitializedSegment(list, 1)
    /\ semv = [k \in 0..(NumSems(list) - 1) |->
                 IF k = 0 THEN 1 + Cardinality({p \in Procs : Initializer(p)}) ELSE 1]
    /\ now = MaxClock
    /\ pc = [p \in Procs |-> "ready"]
    /\ via = [p \in Procs |-> IF Initializer(p) THEN "init" ELSE "attach"]
    /\ initialized = [p \in Procs |-> Initializer(p)]
    /\ units = [p \in Procs |-> IF Initializer(p) THEN Len(list.nodes[<<>>].names) ELSE 0]
    /\ held = [p \in Procs |-> {}]
    /\ op = [p \in Procs |-> NoOp]
    /\ last = NoLast
    /\ cap = [p \in Procs |-> NoCap]
    /\ mirror = [p \in Procs |-> NoMirror]
    /\ hist = [NoHist(list, MaxBatch, FALSE) EXCEPT
                  !.foundValid = [p \in Procs |-> p # 1],
                  !.wrote = [p \in Procs |-> Initializer(p)]]

NextDetect ==
    \E p \in Procs :
        \/ CaptureWait(p)
        \/ CapturePost(p)
        \/ UpdateCall(p)
        \/ waitSem(p)
        \/ UpdateBody(p)
        \/ semPost(p)
        \/ LocalCppObj(p)
        \/ checkChanges(p)
        \/ CheckBody(p)

SpecDetect == InitDetect /\ [][NextDetect]_vars

(***************************************************************************)
(* Processes that update primitives of every type, next to processes that  *)
(* bring a document up to date with sync.                                  *)
(***************************************************************************)
\* a scalar of a document: a COInteger, CODouble, COString or COBoolean
Scalar(kind, val) == [kind |-> kind, val |-> val]

\* the outcome of a sync: the result and the document afterwards
Synced(doc, differs, val) ==
    [result |-> differs, doc |-> IF differs THEN [doc EXCEPT !.val = val] ELSE doc]

\* syncInt: the stored integer, 16 and 8 bits read as unsigned
syncInt(m, off, type, doc) ==
    IF doc.kind # "integer" THEN Synced(doc, FALSE, 0)
    ELSE CASE type = "INT64" -> Synced(doc, Signed(ReadBytes(m, off, 8)) # doc.val,
                                       Signed(ReadBytes(m, off, 8)))
           [] type = "INT32" -> Synced(doc, Signed(ReadBytes(m, off, 4)) # doc.val,
                                       Signed(ReadBytes(m, off, 4)))
           [] type = "INT16" -> Synced(doc, Unsigned(ReadBytes(m, off, 2)) # doc.val,
                                       Unsigned(ReadBytes(m, off, 2)))
           [] type = "INT8" -> Synced(doc, Unsigned(ReadBytes(m, off, 1)) # doc.val,
                                      Unsigned(ReadBytes(m, off, 1)))
           [] OTHER -> Synced(doc, FALSE, 0)

syncDouble(m, off, type, doc) ==
    IF type = "DOUBLE" /\ doc.kind = "double"
    THEN Synced(doc, Signed(ReadBytes(m, off, 8)) # doc.val, Signed(ReadBytes(m, off, 8)))
    ELSE Synced(doc, FALSE, 0)

syncString(m, off, type, doc) ==
    IF type = "CHAR" /\ doc.kind = "string"
    THEN Synced(doc, CString(m, off) # doc.val, CString(m, off))
    ELSE Synced(doc, FALSE, <<>>)

\* syncBoolean asks CppON::isDouble of the document it is given.  sync hands
\* it the COBoolean documents only, so the arm below the test is never taken
syncBoolean(m, off, type, doc) ==
    IF type = "BOOL" /\ doc.kind = "double"
    THEN Synced(doc, (m[off] # 0) # doc.val, m[off] # 0)
    ELSE Synced(doc, FALSE, FALSE)

\* sync( obj, lst ) with a scalar document: the switch on the type of obj
syncOf(m, off, type, doc) ==
    CASE doc.kind = "integer" -> syncInt(m, off, type, doc)
      [] doc.kind = "double" -> syncDouble(m, off, type, doc)
      [] doc.kind = "string" -> syncString(m, off, type, doc)
      [] doc.kind = "boolean" -> syncBoolean(m, off, type, doc)

\* the kind of scalar that corresponds to a primitive
KindOf(def) ==
    CASE def.type = "int" -> "integer"
      [] def.type = "float" -> "double"
      [] def.type = "string" -> "string"
      [] def.type = "bool" -> "boolean"

\* sync called on a primitive with a scalar of its kind, which holds the
\* default of the primitive or the value stored for it
syncScalar(p) ==
    /\ Ready(p)
    /\ \E n \in Primitives(list.nodes) :
       \E v \in {DefaultValue(list.nodes[n].def), StoredValue(mem, n)} :
          LET doc == Scalar(KindOf(list.nodes[n].def), v)
              r == syncOf(mem, pointer(p, n), list.nodes[n].type, doc)
          IN last' = [by |-> p, acc |-> "sync", node |-> n, value |-> r.doc.val,
                      stored |-> StoredValue(mem, n), ts |-> 0, expect |-> <<>>,
                      doc |-> v, result |-> r.result]
    /\ UNCHANGED <<schemaVars, resolveVars, segVars, pc, via, initialized, units, held, op, cap, mirror, hist>>

InitSync ==
    /\ config = ConfigKinds
    /\ list = initializeObject(config)
    /\ rsPath = NULL
    /\ rsRes = NULL
    /\ charSigned \in BOOLEAN
    /\ mem = InitializedSegment(list, 1)
    /\ semv = [k \in 0..(NumSems(list) - 1) |->
                 IF k = 0 THEN 1 + Cardinality({p \in Procs : Initializer(p)}) ELSE 1]
    /\ now = MaxClock
    /\ pc = [p \in Procs |-> "ready"]
    /\ via = [p \in Procs |-> IF Initializer(p) THEN "init" ELSE "attach"]
    /\ initialized = [p \in Procs |-> Initializer(p)]
    /\ units = [p \in Procs |-> IF Initializer(p) THEN Len(list.nodes[<<>>].names) ELSE 0]
    /\ held = [p \in Procs |-> {}]
    /\ op = [p \in Procs |-> NoOp]
    /\ last = NoLast
    /\ cap = [p \in Procs |-> NoCap]
    /\ mirror = [p \in Procs |-> NoMirror]
    /\ hist = [NoHist(list, MaxUpdates, FALSE) EXCEPT
                  !.foundValid = [p \in Procs |-> p # 1],
                  !.wrote = [p \in Procs |-> Initializer(p)]]

NextSync ==
    \E p \in Procs :
        \/ UpdateAny(p)
        \/ waitSem(p)
        \/ UpdateBody(p)
        \/ semPost(p)
        \/ syncScalar(p)

SpecSync == InitSync /\ [][NextSync]_vars

(***************************************************************************)
(* Processes that update a unit from a map document and an array from an   *)
(* array document.  The calls are made without protect, so that no         *)
(* semaphore is involved, and the documents hold scalars only.             *)
(***************************************************************************)
MaxDocs == 2
MaxDocLen == 3

\* a unit with an int64 and an int32, and an array of two int16
ConfigDoc ==
    UnitDef((NameCfg :> UnitDef((NameI64 :> IntDef(8, 4)) @@ (NameI32 :> IntDef(4, 3))))
         @@ (NameData :> ArrayDef(ElementSubs(<<IntDef(2, 1), IntDef(2, 2)>>))))

\* the keys of the map documents, in the order of a std::map: the two
\* children of the unit and a key no child has
DocKeys == <<NameI32, NameI64, NameZ>>

\* the scalars of the documents; the value of a COBoolean is given as 1 or 0
DocScalars ==
    {Scalar("integer", -1), Scalar("integer", 70000), Scalar("double", 250),
     Scalar("boolean", 1)}

\* the map documents: up to two entries <<key, scalar>>, sorted by key
DocMaps ==
    {<<>>}
      \cup {<<<<DocKeys[k], s>>>> : k \in 1..Len(DocKeys), s \in DocScalars}
      \cup {<<<<DocKeys[k[1]], s>>, <<DocKeys[k[2]], t>>>> :
               k \in {<<1, 2>>, <<1, 3>>, <<2, 3>>}, s \in DocScalars, t \in DocScalars}

\* the array documents: up to MaxDocLen integers and doubles
DocArrays ==
    UNION {[1..n -> {Scalar("integer", 5), Scalar("double", 250)}] : n \in 0..MaxDocLen}

\* the child of the composite c that has the name key, NULL if there is none
ChildNamed(c, key) ==
    LET S == {n \in DOMAIN list.nodes : n # <<>> /\ Parent(n) = c /\ list.nodes[n].name = key}
    IN IF S = {} THEN NULL ELSE CHOOSE n \in S : TRUE

\* an update accessor on one primitive: the bytes and the time are stored
Stored(p, m, n, bytes) ==
    setUpdateTime(WriteBytes(m, pointer(p, n), bytes), list.nodes[n], now)

\* updateObject( lst, obj, false ), the loop over the entries of the map:
\* the child is looked up by its name and the accessor is chosen by the
\* type of the entry alone; for an integer, updateLong if the size of the
\* unit (lst->size) is 8, updateInt with toInt() otherwise
RECURSIVE updateObjectFrom(_, _, _, _)
updateObjectFrom(p, r, c, entries) ==
    IF entries = <<>> THEN r
    ELSE LET key == Head(entries)[1]
             ob == Head(entries)[2]
             n == ChildNamed(c, key)
             node == list.nodes[n]
             bytes == CASE ob.kind = "integer" ->
                              IF list.nodes[c].size = 8 THEN updateLong(node, ob.val)
                              ELSE updateInt(node, ob.val)
                        [] ob.kind = "double" -> updateDouble(node, ob.val)
                        [] ob.kind = "boolean" -> updateBoolean(node, ob.val # 0)
         IN IF n = NULL THEN updateObjectFrom(p, r, c, Tail(entries))
            ELSE updateObjectFrom(p, [r EXCEPT !.mem = Stored(p, @, n, bytes),
                                               !.wrote = @ \cup {n}],
                                  c, Tail(entries))

\* updateArray( lst, arr, false ), the loop
\* for( i = 0; max > i && arr->size(); i++ ): arr->at( i ) is asked for
\* every i below nSubs if the document is not empty; beyond the end of the
\* document there is no element, and the call does not return
RECURSIVE updateArrayFrom(_, _, _, _, _)
updateArrayFrom(p, r, c, arr, i) ==
    IF ~(list.nodes[c].nSubs > i /\ Len(arr) # 0) THEN r
    ELSE IF i >= Len(arr) THEN [r EXCEPT !.asked = @ \cup {i}, !.crashed = TRUE]
    ELSE LET n == c \o <<i>>
             node == list.nodes[n]
             ob == arr[i + 1]
             fits == \/ ob.kind = "integer" /\ node.type \in {"INT64", "INT32", "INT16", "INT8"}
                     \/ ob.kind = "double" /\ node.type = "DOUBLE"
             bytes == CASE ob.kind = "integer" /\ node.type = "INT64" -> updateLong(node, ob.val)
                        [] ob.kind = "integer" /\ node.type # "INT64" -> updateInt(node, ob.val)
                        [] ob.kind = "double" -> updateDouble(node, ob.val)
             seen == [r EXCEPT !.asked = @ \cup {i}]
         IN updateArrayFrom(p, IF fits THEN [seen EXCEPT !.mem = Stored(p, @, n, bytes),
                                                         !.wrote = @ \cup {n}]
                               ELSE seen,
                            c, arr, i + 1)

\* what a call starts from
NoneDone == [mem |-> mem, wrote |-> {}, asked |-> {}, crashed |-> FALSE]

\* the outcome of an update from a document as its caller sees it
DocOutcome(p, fn, c, doc, r, result) ==
    [by |-> p, acc |-> fn, node |-> c, value |-> 0, stored |-> 0, ts |-> now,
     expect |-> <<>>, doc |-> doc, wrote |-> r.wrote, asked |-> r.asked,
     crashed |-> r.crashed, result |-> result]

\* updateObject( lst, obj, false ) on a unit: it returns true
updateObjectWith(p) ==
    /\ Ready(p)
    /\ hist.updates < hist.budget
    /\ \E c \in {d \in BulkNodes : list.nodes[d].type = "UNIT"} : \E doc \in DocMaps :
          LET r == updateObjectFrom(p, NoneDone, c, doc)
          IN /\ mem' = r.mem
             /\ last' = DocOutcome(p, "updateObject", c, doc, r, TRUE)
    /\ hist' = [hist EXCEPT !.updates = @ + 1]
    /\ UNCHANGED <<schemaVars, resolveVars, charSigned, semv, now, pc, via, initialized, units, held, op, cap, mirror>>

\* updateArray( lst, arr, false ) on an array: it returns false
updateArray(p) ==
    /\ Ready(p)
    /\ hist.updates < hist.budget
    /\ \E c \in {d \in BulkNodes : list.nodes[d].type = "ARRAY"} : \E doc \in DocArrays :
          LET r == updateArrayFrom(p, NoneDone, c, doc, 0)
          IN /\ mem' = r.mem
             /\ last' = DocOutcome(p, "updateArray", c, doc, r, FALSE)
             /\ pc' = IF r.crashed THEN [pc EXCEPT ![p] = "crashed"] ELSE pc
    /\ hist' = [hist EXCEPT !.updates = @ + 1]
    /\ UNCHANGED <<schemaVars, resolveVars, charSigned, semv, now, via, initialized, units, held, op, cap, mirror>>

InitDoc ==
    /\ config = ConfigDoc
    /\ list = initializeObject(config)
    /\ rsPath = NULL
    /\ rsRes = NULL
    /\ charSigned \in BOOLEAN
    /\ mem = InitializedSegment(list, 1)
    /\ semv = [k \in 0..(NumSems(list) - 1) |->
                 IF k = 0 THEN 1 + Cardinality({p \in Procs : Initializer(p)}) ELSE 1]
    /\ now = MaxClock
    /\ pc = [p \in Procs |-> "ready"]
    /\ via = [p \in Procs |-> IF Initializer(p) THEN "init" ELSE "attach"]
    /\ initialized = [p \in Procs |-> Initializer(p)]
    /\ units = [p \in Procs |-> IF Initializer(p) THEN Len(list.nodes[<<>>].names) ELSE 0]
    /\ held = [p \in Procs |-> {}]
    /\ op = [p \in Procs |-> NoOp]
    /\ last = NoLast
    /\ cap = [p \in Procs |-> NoCap]
    /\ mirror = [p \in Procs |-> NoMirror]
    /\ hist = [NoHist(list, MaxDocs, FALSE) EXCEPT
                  !.foundValid = [p \in Procs |-> p # 1],
                  !.wrote = [p \in Procs |-> Initializer(p)]]

NextDoc ==
    \E p \in Procs :
        \/ updateObjectWith(p)
        \/ updateArray(p)

SpecDoc == InitDoc /\ [][NextDoc]_vars

(***************************************************************************)
(* Processes that store values of every kind and read a node with each of  *)
(* the value accessors and with readBool.                                  *)
(***************************************************************************)
\* a unit that holds one primitive of each type, the string with room for
\* the text of a truth value
ConfigTruth ==
    UnitDef(NameCfg :> UnitDef((NameI8 :> IntDef(1, 1)) @@ (NameI16 :> IntDef(2, 2))
                            @@ (NameI32 :> IntDef(4, 3)) @@ (NameI64 :> IntDef(8, 4))
                            @@ (NameF64 :> FloatDef(150, 0)) @@ (NameBool :> BoolDef(FALSE))
                            @@ (NameStr :> StringDef(6, <<84, 114, 117, 101>>))))

\* the values stored: zero and not zero for the numbers, a half for the
\* double, and for the string "True", "TRUE", "true", "1" and "no"
TruthValues(def) ==
    CASE PrimType(def) \in {"INT8", "INT16", "INT32", "INT64"} -> {-1, 0, 1}
      [] PrimType(def) = "DOUBLE" -> {0, 50, 100}
      [] PrimType(def) = "BOOL" -> BOOLEAN
      [] PrimType(def) = "CHAR" -> {<<84, 114, 117, 101>>, <<84, 82, 85, 69>>, TrueText,
                                    <<49>>, <<110, 111>>}

UpdateTruth(p) ==
    /\ Ready(p)
    /\ hist.updates < hist.budget
    /\ \E n \in Primitives(list.nodes) : \E v \in TruthValues(list.nodes[n].def) :
          /\ Callable(p, n, TRUE)
          /\ op' = [op EXCEPT ![p] = Item("update", "update", <<n>>, TRUE, v)]
    /\ hist' = [hist EXCEPT !.updates = @ + 1]
    /\ UNCHANGED <<schemaVars, resolveVars, segVars, pc, via, initialized, units, held, last, cap, mirror>>

\* readBool( path, NULL, false, lst ): bool r = intValue( path, protect, lst,
\* &valid ), and the result only where valid
readBool(m, off, type) ==
    LET r == intValue(m, off, type)
    IN [valid |-> r.valid, result |-> r.valid /\ r.result # 0]

\* a node read, without protect, by each value accessor and by readBool
readValues(p) ==
    /\ Ready(p)
    /\ \E n \in DOMAIN list.nodes :
          LET type == list.nodes[n].type
              off == pointer(p, n)
          IN last' = [by |-> p, acc |-> "values", node |-> n, value |-> 0, stored |-> 0,
                      ts |-> 0, expect |-> <<>>,
                      text |-> IF type = "CHAR" THEN CString(mem, off) ELSE <<>>,
                      asDouble |-> doubleValue(mem, off, type),
                      asLong |-> longValue(mem, off, type),
                      asInt |-> intValue(mem, off, type),
                      asBool |-> boolValue(mem, off, type),
                      read |-> readBool(mem, off, type)]
    /\ UNCHANGED <<schemaVars, resolveVars, segVars, pc, via, initialized, units, held, op, cap, mirror, hist>>

InitTruth ==
    /\ config = ConfigTruth
    /\ list = initializeObject(config)
    /\ rsPath = NULL
    /\ rsRes = NULL
    /\ charSigned \in BOOLEAN
    /\ mem = InitializedSegment(list, 1)
    /\ semv = [k \in 0..(NumSems(list) - 1) |->
                 IF k = 0 THEN 1 + Cardinality({p \in Procs : Initializer(p)}) ELSE 1]
    /\ now = MaxClock
    /\ pc = [p \in Procs |-> "ready"]
    /\ via = [p \in Procs |-> IF Initializer(p) THEN "init" ELSE "attach"]
    /\ initialized = [p \in Procs |-> Initializer(p)]
    /\ units = [p \in Procs |-> IF Initializer(p) THEN Len(list.nodes[<<>>].names) ELSE 0]
    /\ held = [p \in Procs |-> {}]
    /\ op = [p \in Procs |-> NoOp]
    /\ last = NoLast
    /\ cap = [p \in Procs |-> NoCap]
    /\ mirror = [p \in Procs |-> NoMirror]
    /\ hist = [NoHist(list, MaxUpdates, FALSE) EXCEPT
                  !.foundValid = [p \in Procs |-> p # 1],
                  !.wrote = [p \in Procs |-> Initializer(p)]]

NextTruth ==
    \E p \in Procs :
        \/ UpdateTruth(p)
        \/ waitSem(p)
        \/ UpdateBody(p)
        \/ semPost(p)
        \/ readValues(p)

SpecTruth == InitTruth /\ [][NextTruth]_vars

(***************************************************************************)
(* Strings of a fixed size with a neighbour in the region of the           *)
(* characters: the defaults the initializer copies and the updates of a    *)
(* string by each update accessor.  The calls are made without protect.    *)
(***************************************************************************)
MaxTexts == 2
FixedSize == 3

\* "%X" of the bytes of an unsigned value: the digits from the highest that
\* is not zero on
HexChar(d) == IF d < 10 THEN 48 + d ELSE 55 + d

RECURSIVE HexOf(_)
HexOf(bytes) ==
    IF bytes = <<>> THEN <<>>
    ELSE LET b == bytes[Len(bytes)]
             rest == HexOf(SubSeq(bytes, 1, Len(bytes) - 1))
         IN <<HexChar(b \div 16), HexChar(b % 16)>> \o rest

RECURSIVE NoLeadingZeros(_)
NoLeadingZeros(s) == IF Len(s) > 1 /\ s[1] = 48 THEN NoLeadingZeros(Tail(s)) ELSE s

\* "0x%X" and "0x%lX"
FormatHex(val, w) == <<48, 120>> \o NoLeadingZeros(HexOf(Encode(val, w)))

\* "%lf" of a double given in hundredths: six digits after the point
FormatDouble(h) ==
    LET a == IF h < 0 THEN -h ELSE h
    IN (IF h < 0 THEN <<45>> ELSE <<>>) \o to_string(a \div 100)
       \o <<46, 48 + ((a % 100) \div 10), 48 + (a % 10), 48, 48, 48, 48>>

\* cPtr[ sz ] = '\0'; snprintf( cPtr, sz, ... ) with sz = size - 1: at most
\* sz - 1 characters of the text and a NUL after them; nothing where sz is 0
snprintf(old, size, text) ==
    LET sz == size - 1
        k == IF Len(text) < sz - 1 THEN Len(text) ELSE sz - 1
    IN [i \in 1..size |->
           IF sz > 0 /\ i <= k THEN text[i]
           ELSE IF sz > 0 /\ i = k + 1 THEN 0
           ELSE IF i = size THEN 0
           ELSE old[i]]

\* the SL_TYPE_CHAR arm of each update accessor
updateChar(old, node, fn, val) ==
    CASE fn = "updateString" -> updateString(node, val)
      [] fn = "updateDouble" -> snprintf(old, node.size, FormatDouble(val))
      [] fn = "updateLong" -> snprintf(old, node.size, FormatHex(val, 8))
      [] fn = "updateInt" -> snprintf(old, node.size, FormatHex(val, 4))
      [] fn = "updateBoolean" ->
            snprintf(old, node.size, IF val THEN <<84, 114, 117, 101>>
                                     ELSE <<70, 97, 108, 115, 101>>)

\* the values each accessor is called with
CharArgs(fn) ==
    CASE fn = "updateString" -> {Filled(n) : n \in 0..(FixedSize + 1)}
      [] fn = "updateDouble" -> {250, -5}
      [] fn = "updateLong" -> {0, 70000}
      [] fn = "updateInt" -> {-1, 10}
      [] fn = "updateBoolean" -> BOOLEAN

CharAccessors == {"updateString", "updateDouble", "updateLong", "updateInt", "updateBoolean"}

\* a unit with a string s, whose default has len characters, and its
\* neighbours: a string t and a Boolean
ConfigFixed(len) ==
    UnitDef(NameCfg :> UnitDef((NameS :> StringDef(FixedSize, [i \in 1..len |-> 97]))
                            @@ (NameT :> StringDef(2, <<98>>))
                            @@ (NameBool :> BoolDef(TRUE))))

FixedConfigs == {ConfigFixed(len) : len \in 0..(FixedSize + 1)}

\* an update accessor called on a string
updateFixed(p) ==
    /\ Ready(p)
    /\ hist.updates < hist.budget
    /\ \E n \in Primitives(list.nodes) : \E fn \in CharAccessors : \E v \in CharArgs(fn) :
          LET node == list.nodes[n]
              off == pointer(p, n)
              bytes == updateChar(ReadBytes(mem, off, node.size), node, fn, v)
          IN /\ node.type = "CHAR"
             /\ mem' = Stored(p, mem, n, bytes)
             /\ last' = [by |-> p, acc |-> fn, node |-> n, value |-> v, stored |-> bytes,
                         ts |-> now, expect |-> <<>>]
    /\ hist' = [hist EXCEPT !.updates = @ + 1]
    /\ UNCHANGED <<schemaVars, resolveVars, charSigned, semv, now, pc, via, initialized, units, held, op, cap, mirror>>

InitFixed ==
    /\ config \in FixedConfigs
    /\ list = initializeObject(config)
    /\ rsPath = NULL
    /\ rsRes = NULL
    /\ charSigned \in BOOLEAN
    /\ mem = InitializedSegment(list, 1)
    /\ semv = [k \in 0..(NumSems(list) - 1) |->
                 IF k = 0 THEN 1 + Cardinality({p \in Procs : Initializer(p)}) ELSE 1]
    /\ now \in 1..MaxClock
    /\ pc = [p \in Procs |-> "ready"]
    /\ via = [p \in Procs |-> IF Initializer(p) THEN "init" ELSE "attach"]
    /\ initialized = [p \in Procs |-> Initializer(p)]
    /\ units = [p \in Procs |-> IF Initializer(p) THEN Len(list.nodes[<<>>].names) ELSE 0]
    /\ held = [p \in Procs |-> {}]
    /\ op = [p \in Procs |-> NoOp]
    /\ last = NoLast
    /\ cap = [p \in Procs |-> NoCap]
    /\ mirror = [p \in Procs |-> NoMirror]
    /\ hist = [NoHist(list, MaxTexts, TRUE) EXCEPT
                  !.foundValid = [p \in Procs |-> p # 1],
                  !.wrote = [p \in Procs |-> Initializer(p)]]

NextFixed == \E p \in Procs : updateFixed(p)

SpecFixed == InitFixed /\ [][NextFixed]_vars

(***************************************************************************)
(* Processes that set the update times of primitives and ask for the       *)
(* update time of a node.                                                  *)
(***************************************************************************)
\* the times set, in milliseconds: never, and either side of a second
TimeValues == {0, 999, 1001}

\* the timespec of a time in milliseconds
TimeSpec(t) == [sec |-> t \div 1000, nsec |-> (t % 1000) * 1000000]

\* getUpdateTime( tsp, lst ): a unit asks each of its subs; any other node,
\* an array as well as a primitive, reads the eight bytes at its own time
\* offset, which is 0 for an array, and takes them where they are later
\* than tsp.  The result tells whether a time of 0 was met
RECURSIVE getUpdateTime(_, _, _)
RECURSIVE getUpdateTimeSubs(_, _, _, _)
getUpdateTime(m, c, tsp) ==
    IF list.nodes[c].type = "UNIT" THEN getUpdateTimeSubs(m, c, 0, [tsp |-> tsp, rtn |-> FALSE])
    ELSE LET t == Signed(ReadBytes(m, list.nodes[c].time, 8))
             new == TimeSpec(t)
         IN IF t # 0
            THEN [tsp |-> IF tsp.sec < new.sec \/ (tsp.sec = new.sec /\ tsp.nsec < new.nsec)
                          THEN new ELSE tsp,
                  rtn |-> FALSE]
            ELSE [tsp |-> tsp, rtn |-> TRUE]

getUpdateTimeSubs(m, c, i, r) ==
    IF i >= list.nodes[c].nSubs THEN r
    ELSE LET s == getUpdateTime(m, c \o <<i>>, r.tsp)
         IN getUpdateTimeSubs(m, c, i + 1, [tsp |-> s.tsp, rtn |-> r.rtn \/ s.rtn])

\* setUpdateTime( path, lst, t ) on a primitive
setUpdateTimeTo(p) ==
    /\ Ready(p)
    /\ hist.updates < hist.budget
    /\ \E n \in Primitives(list.nodes) : \E t \in TimeValues :
          mem' = setUpdateTime(mem, list.nodes[n], t)
    /\ hist' = [hist EXCEPT !.updates = @ + 1]
    /\ UNCHANGED <<schemaVars, resolveVars, charSigned, semv, now, procVars>>

\* getUpdateTime( tsp, lst ) with a timespec of 0; with the result goes what
\* the time slots of the primitives held at the call
getUpdateTimeOf(p) ==
    /\ Ready(p)
    /\ \E c \in DOMAIN list.nodes :
          LET r == getUpdateTime(mem, c, TimeSpec(0))
          IN last' = [by |-> p, acc |-> "time", node |-> c, value |-> r.tsp,
                      stored |-> [n \in Primitives(list.nodes) |->
                                     Signed(ReadBytes(mem, list.nodes[n].time, 8))],
                      ts |-> 0, expect |-> <<>>, result |-> r.rtn]
    /\ UNCHANGED <<schemaVars, resolveVars, segVars, pc, via, initialized, units, held, op, cap, mirror, hist>>

TimeConfigs == {ConfigCfg, ConfigDoc}

InitTimes ==
    /\ config \in TimeConfigs
    /\ list = initializeObject(config)
    /\ rsPath = NULL
    /\ rsRes = NULL
    /\ charSigned \in BOOLEAN
    /\ mem = InitializedSegment(list, 1)
    /\ semv = [k \in 0..(NumSems(list) - 1) |->
                 IF k = 0 THEN 1 + Cardinality({p \in Procs : Initializer(p)}) ELSE 1]
    /\ now = 1
    /\ pc = [p \in Procs |-> "ready"]
    /\ via = [p \in Procs |-> IF Initializer(p) THEN "init" ELSE "attach"]
    /\ initialized = [p \in Procs |-> Initializer(p)]
    /\ units = [p \in Procs |-> IF Initializer(p) THEN Len(list.nodes[<<>>].names) ELSE 0]
    /\ held = [p \in Procs |-> {}]
    /\ op = [p \in Procs |-> NoOp]
    /\ last = NoLast
    /\ cap = [p \in Procs |-> NoCap]
    /\ mirror = [p \in Procs |-> NoMirror]
    /\ hist = [NoHist(list, MaxStamps, FALSE) EXCEPT
                  !.foundValid = [p \in Procs |-> p # 1],
                  !.wrote = [p \in Procs |-> Initializer(p)]]

NextTimes ==
    \E p \in Procs :
        \/ setUpdateTimeTo(p)
        \/ getUpdateTimeOf(p)

SpecTimes == InitTimes /\ [][NextTimes]_vars

(***************************************************************************)
(* A process that waits for the update of a node while the others update   *)
(* the primitives, and a clock of milliseconds that goes on.               *)
(***************************************************************************)
WaitClock == 3

Timeouts == {1, 2}

\* clock_gettime( CLOCK_MONOTONIC ) goes on by a millisecond
Tick ==
    /\ now < WaitClock
    /\ now' = now + 1
    /\ UNCHANGED <<schemaVars, resolveVars, charSigned, mem, semv, procVars, hist>>

\* waitForUpdate( lst, 0, to ): start = now where it is 0, to += now.  val is
\* start and rest the deadline; out is a history: the time and the phase of
\* the call at every update of the node that completes while the call runs
waitForUpdateCall(p) ==
    /\ Ready(p)
    /\ p = 1
    /\ \E n \in DOMAIN list.nodes : \E to \in Timeouts :
          /\ now + to <= WaitClock
          /\ op' = [op EXCEPT ![p] = [acc |-> "wait", fn |-> "waitForUpdate", node |-> n,
                                      protect |-> FALSE, val |-> now, phase |-> "check",
                                      rest |-> <<to + now>>, out |-> <<>>]]
    /\ UNCHANGED <<schemaVars, resolveVars, segVars, pc, via, initialized, units, held, last, cap, mirror, hist>>

\* the test of the loop: the eight bytes at basePtr + lst->time against start
waitForUpdateTest(p) ==
    LET o == op[p]
        seen == Signed(ReadBytes(mem, list.nodes[o.node].time, 8)) > o.val
    IN /\ pc[p] = "ready"
       /\ o.acc = "wait"
       /\ o.phase = "check"
       /\ IF seen
          THEN /\ op' = [op EXCEPT ![p] = NoOp]
               /\ last' = [by |-> p, acc |-> "wait", node |-> o.node, value |-> o.val,
                           stored |-> o.out, ts |-> now, expect |-> o.rest, result |-> TRUE]
          ELSE /\ op' = [op EXCEPT ![p].phase = "sleep"]
               /\ UNCHANGED last
       /\ UNCHANGED <<schemaVars, resolveVars, segVars, pc, via, initialized, units, held, cap, mirror, hist>>

\* usleep( 50 ), clock_gettime and the condition of the loop: to > now
waitForUpdateSleep(p) ==
    LET o == op[p]
    IN /\ pc[p] = "ready"
       /\ o.acc = "wait"
       /\ o.phase = "sleep"
       /\ IF o.rest[1] > now
          THEN /\ op' = [op EXCEPT ![p].phase = "check"]
               /\ UNCHANGED last
          ELSE /\ op' = [op EXCEPT ![p] = NoOp]
               /\ last' = [by |-> p, acc |-> "wait", node |-> o.node, value |-> o.val,
                           stored |-> o.out, ts |-> now, expect |-> o.rest, result |-> FALSE]
       /\ UNCHANGED <<schemaVars, resolveVars, segVars, pc, via, initialized, units, held, cap, mirror, hist>>

\* an update accessor called without protect on a primitive: the value and
\* the time of the clock are stored
updateNow(p) ==
    /\ Ready(p)
    /\ p # 1
    /\ hist.updates < hist.budget
    /\ \E n \in Primitives(list.nodes) : \E v \in NewValues(list.nodes[n].def) :
          /\ mem' = Stored(p, mem, n, UpdateTyped(list.nodes[n], v))
          /\ op' = [q \in Procs |->
                      IF op[q].acc = "wait" /\ op[q].node = n
                      THEN [op[q] EXCEPT !.out = Append(@, <<now, op[q].phase>>)]
                      ELSE op[q]]
    /\ hist' = [hist EXCEPT !.updates = @ + 1]
    /\ UNCHANGED <<schemaVars, resolveVars, charSigned, semv, now, pc, via, initialized, units, held, last, cap, mirror>>

InitWait ==
    /\ config = ConfigCfg
    /\ list = initializeObject(config)
    /\ rsPath = NULL
    /\ rsRes = NULL
    /\ charSigned \in BOOLEAN
    /\ mem = InitializedSegment(list, 1)
    /\ semv = [k \in 0..(NumSems(list) - 1) |->
                 IF k = 0 THEN 1 + Cardinality({p \in Procs : Initializer(p)}) ELSE 1]
    /\ now = 1
    /\ pc = [p \in Procs |-> "ready"]
    /\ via = [p \in Procs |-> IF Initializer(p) THEN "init" ELSE "attach"]
    /\ initialized = [p \in Procs |-> Initializer(p)]
    /\ units = [p \in Procs |-> IF Initializer(p) THEN Len(list.nodes[<<>>].names) ELSE 0]
    /\ held = [p \in Procs |-> {}]
    /\ op = [p \in Procs |-> NoOp]
    /\ last = NoLast
    /\ cap = [p \in Procs |-> NoCap]
    /\ mirror = [p \in Procs |-> NoMirror]
    /\ hist = [NoHist(list, MaxStamps, TRUE) EXCEPT
                  !.foundValid = [p \in Procs |-> p # 1],
                  !.wrote = [p \in Procs |-> Initializer(p)]]

NextWait ==
    \/ Tick
    \/ \E p \in Procs :
          \/ waitForUpdateCall(p)
          \/ waitForUpdateTest(p)
          \/ waitForUpdateSleep(p)
          \/ updateNow(p)

SpecWait == InitWait /\ [][NextWait]_vars

\* the clock goes on, and a process in the loop gets to its next step
SpecWaitFair ==
    /\ SpecWait
    /\ WF_vars(Tick)
    /\ \A p \in Procs : WF_vars(waitForUpdateTest(p) \/ waitForUpdateSleep(p))

(***************************************************************************)
(* Processes that read and update a string and an integer of a unit by     *)
(* every operation that reads the segment.                                 *)
(***************************************************************************)
InitStrings ==
    /\ config = ConfigPair
    /\ list = initializeObject(config)
    /\ rsPath = NULL
    /\ rsRes = NULL
    /\ charSigned \in BOOLEAN
    /\ mem = InitializedSegment(list, 1)
    /\ semv = [k \in 0..(NumSems(list) - 1) |->
                 IF k = 0 THEN 1 + Cardinality({p \in Procs : Initializer(p)}) ELSE 1]
    /\ now = MaxClock
    /\ pc = [p \in Procs |-> "ready"]
    /\ via = [p \in Procs |-> IF Initializer(p) THEN "init" ELSE "attach"]
    /\ initialized = [p \in Procs |-> Initializer(p)]
    /\ units = [p \in Procs |-> IF Initializer(p) THEN Len(list.nodes[<<>>].names) ELSE 0]
    /\ held = [p \in Procs |-> {}]
    /\ op = [p \in Procs |-> NoOp]
    /\ last = NoLast
    /\ cap = [p \in Procs |-> NoCap]
    /\ mirror = [p \in Procs |-> NoMirror]
    /\ hist = [NoHist(list, MaxUpdates, FALSE) EXCEPT
                  !.foundValid = [p \in Procs |-> p # 1],
                  !.wrote = [p \in Procs |-> Initializer(p)]]

SpecStrings == InitStrings /\ [][NextReads]_vars

(***************************************************************************)
(* Processes that construct their objects on a segment as it was left: new, *)
(* or marked 0x5A by an initializer that died, before or after it stored   *)
(* the defaults, and with the init semaphore free or taken by a process    *)
(* that died between its wait and its post.                                *)
(***************************************************************************)
LeftSegments(L) ==
    LET zero == [a \in 0..(L.size - 1) |-> 0]
    IN {zero, [zero EXCEPT ![0] = 90], [InitializedSegment(L, 1) EXCEPT ![0] = 90]}

InitAttach ==
    /\ config = ConfigCfg
    /\ list = initializeObject(config)
    /\ rsPath = NULL
    /\ rsRes = NULL
    /\ charSigned \in BOOLEAN
    /\ mem \in LeftSegments(list)
    /\ \E v \in {0, 1} : semv = [k \in 0..(NumSems(list) - 1) |-> IF k = 0 THEN v ELSE 1]
    /\ now = 1
    /\ NoObjects
    /\ hist = NoHist(list, 0, FALSE)

\* the steps of setBasePointer
Attaching(p) ==
    \/ Check5A(p)
    \/ WaitInit(p)
    \/ PostInit(p)
    \/ CheckA5(p)
    \/ InitMark(p)
    \/ InitClear(p)
    \/ InitHeader(p)
    \/ InitDefault(p)
    \/ InitDone(p)
    \/ AttachDone(p)

NextAttach == \E p \in Procs : Construct(p) \/ Attaching(p)

SpecAttach == InitAttach /\ [][NextAttach]_vars

\* a process in its constructor gets to its next step
SpecAttachFair == SpecAttach /\ \A p \in Procs : WF_vars(Attaching(p))

(***************************************************************************)
(* Processes that call an update accessor on any node of the tree, a       *)
(* composite as well as a primitive, or on a node that was not found.      *)
(***************************************************************************)
\* an update accessor from the wait to the post: the switch stores the value
\* for a primitive and sets rtn = false in its default arm for a composite;
\* setUpdateTime( lst ) and the post follow in either case.  For no node
\* nothing is done
updateAt(p) ==
    /\ Ready(p)
    /\ hist.updates < hist.budget
    /\ \E n \in DOMAIN list.nodes \cup {NULL} : \E protect \in BOOLEAN : \E t \in now..MaxClock :
          LET found == n # NULL
              prim == found /\ IsPrimitive(list.nodes, n)
              written == IF prim
                         THEN WriteBytes(mem, pointer(p, n),
                                         UpdateTyped(list.nodes[n],
                                                     CHOOSE v \in NewValues(list.nodes[n].def) : TRUE))
                         ELSE mem
          IN /\ (found /\ protect) => semv[SemOf(list, via[p], n)] > 0
             /\ now' = t
             /\ mem' = IF found THEN setUpdateTime(written, list.nodes[n], t) ELSE mem
             /\ last' = [by |-> p, acc |-> "updateAt", node |-> n, value |-> 0, stored |-> mem,
                         ts |-> t, expect |-> <<>>, result |-> prim]
    /\ hist' = [hist EXCEPT !.updates = @ + 1]
    /\ UNCHANGED <<schemaVars, resolveVars, charSigned, semv, pc, via, initialized, units, held, op, cap, mirror>>

InitFail ==
    /\ config = ConfigCfg
    /\ list = initializeObject(config)
    /\ rsPath = NULL
    /\ rsRes = NULL
    /\ charSigned \in BOOLEAN
    /\ mem = InitializedSegment(list, 1)
    /\ semv = [k \in 0..(NumSems(list) - 1) |->
                 IF k = 0 THEN 1 + Cardinality({p \in Procs : Initializer(p)}) ELSE 1]
    /\ now = 1
    /\ pc = [p \in Procs |-> "ready"]
    /\ via = [p \in Procs |-> IF Initializer(p) THEN "init" ELSE "attach"]
    /\ initialized = [p \in Procs |-> Initializer(p)]
    /\ units = [p \in Procs |-> IF Initializer(p) THEN Len(list.nodes[<<>>].names) ELSE 0]
    /\ held = [p \in Procs |-> {}]
    /\ op = [p \in Procs |-> NoOp]
    /\ last = NoLast
    /\ cap = [p \in Procs |-> NoCap]
    /\ mirror = [p \in Procs |-> NoMirror]
    /\ hist = [NoHist(list, MaxStamps, TRUE) EXCEPT
                  !.foundValid = [p \in Procs |-> p # 1],
                  !.wrote = [p \in Procs |-> Initializer(p)]]

NextFail == \E p \in Procs : updateAt(p)

SpecFail == InitFail /\ [][NextFail]_vars

(***************************************************************************)
(* A Boolean that is true by default, processes that mirror it and         *)
(* processes that store a truth value in it.                               *)
(***************************************************************************)
InitBool ==
    /\ config = ConfigCfg
    /\ list = initializeObject(config)
    /\ rsPath = NULL
    /\ rsRes = NULL
    /\ charSigned \in BOOLEAN
    /\ mem = InitializedSegment(list, 1)
    /\ semv = [k \in 0..(NumSems(list) - 1) |->
                 IF k = 0 THEN 1 + Cardinality({p \in Procs : Initializer(p)}) ELSE 1]
    /\ now = MaxClock
    /\ pc = [p \in Procs |-> "ready"]
    /\ via = [p \in Procs |-> IF Initializer(p) THEN "init" ELSE "attach"]
    /\ initialized = [p \in Procs |-> Initializer(p)]
    /\ units = [p \in Procs |-> IF Initializer(p) THEN Len(list.nodes[<<>>].names) ELSE 0]
    /\ held = [p \in Procs |-> {}]
    /\ op = [p \in Procs |-> NoOp]
    /\ last = NoLast
    /\ cap = [p \in Procs |-> NoCap]
    /\ mirror = [p \in Procs |-> NoMirror]
    /\ hist = [NoHist(list, MaxUpdates, FALSE) EXCEPT
                  !.foundValid = [p \in Procs |-> p # 1],
                  !.wrote = [p \in Procs |-> Initializer(p)]]

NextBool ==
    \E p \in Procs :
        \/ LocalCppObj(p)
        \/ UpdateAny(p)
        \/ waitSem(p)
        \/ UpdateBody(p)
        \/ semPost(p)
        \/ checkChangesAt(p)
        \/ CheckBody(p)

SpecBool == InitBool /\ [][NextBool]_vars

(***************************************************************************)
(* The tree of a LocalCppObj and its resolver, next to the resolver of the *)
(* object it mirrors.  A node of the mirror is named by its place: the     *)
(* indexes of the subs from the root down.                                 *)
(***************************************************************************)
\* addSub( lObj, target ): obj = &target, and a sub for each of the nSubs
\* subs of the target, in their order
RECURSIVE addSub(_, _, _)
RECURSIVE addSubsFrom(_, _, _, _)
addSub(nodes, lObj, target) ==
    (lObj :> [obj |-> target]) @@ addSubsFrom(nodes, lObj, target, 0)

addSubsFrom(nodes, lObj, target, n) ==
    IF n >= nodes[target].nSubs THEN <<>>
    ELSE addSub(nodes, lObj \o <<n>>, target \o <<n>>) @@ addSubsFrom(nodes, lObj, target, n + 1)

\* LocalCppObj::LocalCppObj: addSub( root, *parent->GetBase() )
MirrorTree(nodes) == addSub(nodes, <<>>, <<>>)

\* resolveName( path, obj ): the loop over the names of obj->obj from entry i
\* (1-based) on; the sub of the mirror is subs[ i / 2 ]
RECURSIVE resolveName(_, _, _, _)
RECURSIVE ScanMirror(_, _, _, _, _)
ScanMirror(path, nodes, tree, obj, i) ==
    LET names == nodes[tree[obj].obj].names
        l == SegmentLen(path, 0)
    IN IF i > Len(names) THEN NULL
       ELSE LET key == names[i].key
                j == KeyRun(path, key, l, 0)
            IN IF CharAt(key, j) = 0
               THEN IF l # Len(names[i].name) THEN ScanMirror(path, nodes, tree, obj, i + 1)
                    ELSE IF Take(names[i].name, l) # Take(path, l) THEN NULL
                    ELSE IF CharAt(path, l) # 0
                         THEN resolveName(Drop(path, l + 1), nodes, tree, obj \o <<i - 1>>)
                    ELSE obj \o <<i - 1>>
               ELSE IF CharAt(key, j) > CharAt(path, j) THEN NULL
               ELSE ScanMirror(path, nodes, tree, obj, i + 1)

\* if( ! obj ) obj = root
resolveName(path, nodes, tree, obj) ==
    LET from == IF obj = NULL THEN <<>> ELSE obj
    IN IF from \in DOMAIN tree THEN ScanMirror(path, nodes, tree, from, 1) ELSE NULL

\* resolveName( path, obj ) and getElement( path, base ) on a path, base the
\* node obj mirrors, and both NULL where no root is given
resolveBoth ==
    /\ rsPath = NULL
    /\ \E path \in CandidatePaths(list.nodes) :
       \E obj \in Composites(list.nodes) \cup {NULL} :
          LET tree == MirrorTree(list.nodes)
              r == resolveName(path, list.nodes, tree, obj)
              g == getElement(path, list.nodes, IF obj = NULL THEN NULL ELSE tree[obj].obj)
          IN /\ rsPath' = path
             /\ rsRes' = g
             /\ last' = [by |-> 0, acc |-> "resolveName", node |-> obj, value |-> r,
                         stored |-> IF r = NULL THEN NULL ELSE tree[r].obj, ts |-> 0,
                         expect |-> <<>>]
    /\ UNCHANGED <<schemaVars, segVars, pc, via, initialized, units, held, op, cap, mirror, hist>>

MirrorConfigs == {ArrayConfig(n) : n \in 0..MaxArrayLen} \cup {ConfigNest, ConfigDoc, ConfigStr}

InitMirror ==
    /\ config \in MirrorConfigs
    /\ list = initializeObject(config)
    /\ rsPath = NULL
    /\ rsRes = NULL
    /\ NoSegment
    /\ NoObjects
    /\ hist = NoHist(list, 0, FALSE)

NextMirror == resolveBoth

SpecMirror == InitMirror /\ [][NextMirror]_vars

(***************************************************************************)
(* C1: for one segment and any interleaving of the processes that attach,  *)
(* at most one of them takes the initializer path: at most one writes the  *)
(* defaults or gets initialized = true (and so has its callback invoked),  *)
(* every other gets initialized = false.                                   *)
(***************************************************************************)
C1_OneInitializer ==
    Cardinality({p \in Procs : initialized[p] \/ hist.wrote[p]}) <= 1

(***************************************************************************)
(* C2: once an attach has returned, every read of a primitive returns its  *)
(* default or a value an earlier update call wrote, never a zeroed or      *)
(* partly initialized value, whatever the other attachers are doing.       *)
(***************************************************************************)
C2_ReadsDefaultOrWritten ==
    last.acc = "read" =>
        \/ last.value = DefaultValue(list.nodes[last.node].def)
        \/ last.value \in hist.written[last.node]

(***************************************************************************)
(* C3: an attach that finds a valid header (byte 0 is 0xA5 and the         *)
(* validation passes) sets initialized = false and changes no byte of the  *)
(* payload, and every primitive then reads the value that is stored.       *)
(***************************************************************************)
C3_AttachKeepsPayload ==
    \A p \in Procs :
        hist.foundValid[p] =>
            /\ ~initialized[p]
            /\ ~hist.wrote[p]
            /\ (last.by = p /\ last.acc = "read" => last.value = last.stored)

(***************************************************************************)
(* C4: the first attacher of a segment that is absent (zero-filled) gets   *)
(* initialized = true, and when its attach returns byte 0 is 0xA5, the     *)
(* header validates, every primitive reads its default at its declared     *)
(* width and every time slot is 0.                                         *)
(***************************************************************************)
C4_FirstAttachInitializes ==
    \A p \in Procs :
        (\A q \in Procs \ {p} : pc[q] = "idle") /\ hist.updates = 0 =>
            /\ pc[p] # "crashed"
            /\ pc[p] = "ready" =>
                  /\ initialized[p]
                  /\ mem[0] = 165
                  /\ ValidHeader(mem, charSigned)
                  /\ \A n \in Primitives(list.nodes) :
                        /\ ReadTyped(mem, pointer(p, n), list.nodes[n].type).result
                              = DefaultValue(list.nodes[n].def)
                        /\ Signed(ReadBytes(mem, list.nodes[n].time, 8)) = 0

(***************************************************************************)
(* C5: for every primitive of the description (at the top, in a unit, an   *)
(* element of an array, a field of a composite in an array), the value an  *)
(* update of one process wrote is the value a read of another process at   *)
(* the same path returns once the write is complete, and the time it reads *)
(* is not 0.                                                               *)
(***************************************************************************)
C5_WriteVisible ==
    last.acc = "read" /\ Len(last.expect) = 1 /\ last.expect[1].by # last.by =>
        /\ last.value = last.expect[1].val
        /\ last.ts # 0

(***************************************************************************)
(* C6: a typed accessor called with protect holds the semaphore of its     *)
(* node while it touches the payload and has released it, once, when it    *)
(* returns; called without protect it does nothing to any semaphore; after *)
(* a call the count of the semaphore is what it was before.                *)
(***************************************************************************)
\* the semaphores a process holds for its caller
Captured(p) == IF cap[p].open THEN {cap[p].sem} ELSE {}

C6_SemaphoreAroundAccess ==
    /\ \A p \in Procs :
          /\ op[p].acc # "none" /\ op[p].protect /\ op[p].phase \in {"body", "post"}
                => SemOf(list, via[p], op[p].node) \in held[p]
          /\ op[p].acc # "none" /\ ~op[p].protect => held[p] = Captured(p)
          /\ op[p].acc = "none" => held[p] = Captured(p)
    /\ \A s \in 1..(NumSems(list) - 1) :
          semv[s] + Cardinality({p \in Procs : s \in held[p]}) = 1

(***************************************************************************)
(* C7: no operation holds two semaphores at once: no call waits for a      *)
(* semaphore while it holds one, the bulk operations (updateObject,        *)
(* toCppON, checkChanges, the update of a mirror) take and release the     *)
(* semaphore for each primitive, and the calls in progress are never all   *)
(* blocked.                                                                *)
(***************************************************************************)
\* a call that waits for a semaphore another process holds
Blocked(p) ==
    /\ op[p].phase = "wait"
    /\ SemOf(list, via[p], op[p].node) # NoSem
    /\ semv[SemOf(list, via[p], op[p].node)] = 0

C7_OneSemaphoreAtATime ==
    /\ \A p \in Procs :
          /\ Cardinality(held[p]) <= 1
          /\ op[p].phase = "wait" => held[p] = {}
    /\ (\E p \in Procs : op[p].acc # "none")
          => \E p \in Procs : op[p].acc # "none" /\ ~Blocked(p)

\* a bulk update holds the semaphore for a primitive that is not its first,
\* and a call of another process waits for that semaphore
C7_Witness ==
    \E p, q \in Procs :
        /\ op[p].fn = "updateObject"
        /\ op[p].phase = "post"
        /\ Len(op[p].rest) + 1 < Len(PrimsBelow(list.nodes, Parent(op[p].node)))
        /\ held[p] # {}
        /\ Blocked(q)
        /\ SemOf(list, via[q], op[q].node) \in held[p]

(***************************************************************************)
(* C8: when a writer has taken the semaphore of a composite, updated       *)
(* several of its primitives without protect and released it, a reader     *)
(* that takes the same semaphore and reads those primitives without        *)
(* protect before it releases it sees all of the values the writer stored  *)
(* or none of them.                                                        *)
(***************************************************************************)
\* of the values a batch changed, the reader saw one new and one old
Torn(obs, b) ==
    \E n1, n2 \in b.nodes \cap DOMAIN obs :
        /\ b.after[n1] # b.before[n1]
        /\ b.after[n2] # b.before[n2]
        /\ obs[n1] = b.after[n1]
        /\ obs[n2] = b.before[n2]

\* the captures that only read, under the semaphore of the last batch
ReadersOf(b) ==
    {r \in Procs : /\ cap[r].node # NULL
                   /\ cap[r].wrote = {}
                   /\ b.by \notin {0, r}
                   /\ cap[r].sem = b.sem}

C10_ArrayIndexResolves ==
    \A a \in ArrayNodes(list.nodes) : \A i \in 0..(MaxArrayLen + 1) : \A sep \in Separators :
        rsPath = IndexPath(list.nodes, a, i, sep)
            => rsRes = IF i < list.nodes[a].nSubs THEN a \o <<i>> ELSE NULL

(***************************************************************************)
(* C11: getElement returns a node only when every segment of the path is   *)
(* the full name of a child: a segment that is a proper prefix of one or   *)
(* of several names, a name that is not there, or a path that goes on      *)
(* below a primitive gives NULL.                                           *)
(***************************************************************************)
\* the segments of a path: the runs between the separators
RECURSIVE Segments(_)
Segments(path) ==
    LET l == SegmentLen(path, 0)
    IN IF l = Len(path) THEN <<path>>
       ELSE <<Take(path, l)>> \o Segments(Drop(path, l + 1))

\* the names from the top down to a node
NamesTo(nodes, id) == [k \in 1..Len(id) |-> nodes[SubSeq(id, 1, k)].name]

C11_ResolveNeedsFullNames ==
    rsPath # NULL /\ rsRes # NULL =>
        /\ rsRes \in NodeIds(list.nodes)
        /\ Segments(rsPath) = NamesTo(list.nodes, rsRes)

\* a segment below a unit that is a proper prefix of two of its names was
\* not resolved
C11_Witness ==
    /\ rsPath # NULL
    /\ rsRes = NULL
    /\ Len(Segments(rsPath)) = 2
    /\ \E u \in NodeIds(list.nodes) :
          /\ list.nodes[u].type = "UNIT"
          /\ Segments(rsPath)[1] = list.nodes[u].name
          /\ LET g == Segments(rsPath)[2]
             IN /\ g # <<>>
                /\ Cardinality({n \in NodeIds(list.nodes) :
                                   /\ Parent(n) = u
                                   /\ Len(list.nodes[n].name) > Len(g)
                                   /\ Take(list.nodes[n].name, Len(g)) = g}) >= 2

(***************************************************************************)
(* C12: for a primitive of any type and any value of the domain of the     *)
(* type (for a string of size n: at most n - 1 characters), the update     *)
(* accessor of the type followed by its read accessor, with no write in    *)
(* between, gives the value back.                                          *)
(***************************************************************************)
C12_UpdateThenRead ==
    last.acc = "read" /\ Len(last.expect) = 1 /\ last.expect[1].by = last.by =>
        last.value = last.expect[1].val

(***************************************************************************)
(* C13: for a numeric node with the hysteresis h whose mirror holds m,     *)
(* after a writer has stored m + x checkChanges reports the node iff       *)
(* |x| > h / 100 for a float and iff |x| > h for an integer; where it      *)
(* reports nothing the document stays as it was (empty, for a call on one  *)
(* node).  Values are the ones the typed accessors read: signed.           *)
(***************************************************************************)
\* |shared - mirror| > hysteresis, the float in hundredths
Beyond(def, share, save) ==
    \/ Signed(share) - Signed(save) > def.hysteresis
    \/ Signed(save) - Signed(share) > def.hysteresis

C13_Hysteresis ==
    \A p \in Procs :
        /\ op[p].acc = "check"
        /\ op[p].phase = "post"
        /\ list.nodes[op[p].node].def.type \in {"int", "float"}
        => LET node == list.nodes[op[p].node]
               save == ReadBytes(mirror[p].buf, pointer(p, op[p].node), node.size)
           IN IF Beyond(node.def, op[p].val, save)
              THEN CheckedOut(p, op[p]) = Append(op[p].out, <<op[p].node, op[p].val>>)
              ELSE CheckedOut(p, op[p]) = op[p].out

(***************************************************************************)
(* C14: checkChanges on a primitive that the mirror has taken from the     *)
(* segment since the last write to the segment (at its construction or in  *)
(* an earlier checkChanges) appends nothing to the document.               *)
(***************************************************************************)
C14_SecondCheckQuiet ==
    \A p \in Procs :
        /\ op[p].acc = "check"
        /\ op[p].phase = "post"
        /\ op[p].node \in mirror[p].again
        => CheckedOut(p, op[p]) = op[p].out

(***************************************************************************)
(* C15: for every primitive of a tree, whatever its kind and wherever it   *)
(* is, the data an object addresses for it ends inside the segment and     *)
(* lies in the region of its kind, and its time slot ends inside the       *)
(* 8 * (number of primitives) bytes after the header.                      *)
(***************************************************************************)
C15_LayoutBounds ==
    last.acc = "pointer" =>
        LET node == list.nodes[last.node]
            r == Region(node.type)
        IN /\ last.value + node.size <= list.size
           /\ list.start[r] <= last.value
           /\ last.value + node.size <= RegionEnd(list, r)
           /\ last.time + 8 <= 32 + 8 * Cardinality(Primitives(list.nodes))

(***************************************************************************)
(* C16: the data an object addresses for two distinct primitives do not    *)
(* overlap, nor do their time slots, and the data of neither overlaps the  *)
(* header or the time slots.                                               *)
(***************************************************************************)
\* [a, a + m) and [b, b + n) have no byte in common
Apart(a, m, b, n) == a + m <= b \/ b + n <= a

C16_LayoutDisjoint ==
    last.acc = "pointers" =>
        LET na == list.nodes[last.node]
            nb == list.nodes[last.other]
        IN /\ Apart(last.value, na.size, last.otherValue, nb.size)
           /\ Apart(na.time, 8, nb.time, 8)
           /\ Apart(0, list.start.dbl, last.value, na.size)
           /\ Apart(0, list.start.dbl, last.otherValue, nb.size)

(***************************************************************************)
(* C17: whatever the random bytes, the header an initializer has written   *)
(* passes the test of an object constructed later: that object does not    *)
(* take the initializer path.                                              *)
(***************************************************************************)
\* the object of p has tested the header
Tested(p) == pc[p] \in {"listSems", "mark", "clear", "header", "defaults", "ready"} /\ via[p] # "none"

C17_HeaderAccepted ==
    \A p, q \in Procs :
        p # q /\ pc[q] = "ready" /\ via[q] = "init" /\ Tested(p) /\ pc[p] # "ready" =>
            via[p] = "attach"

(***************************************************************************)
(* C18: once an object that found the segment corrupt has initialized it   *)
(* again, and while no other object is being constructed, every primitive  *)
(* holds its default, the header passes the test of an attacher, and the   *)
(* flag handed back is true.                                               *)
(***************************************************************************)
C18_CorruptionRecovered ==
    \A p \in Procs :
        /\ pc[p] = "ready"
        /\ via[p] = "init"
        /\ \A q \in Procs : pc[q] \in {"idle", "ready"}
        => /\ initialized[p]
           /\ ValidHeader(mem, charSigned)
           /\ \A n \in Primitives(list.nodes) :
                 StoredValue(mem, n) = DefaultValue(list.nodes[n].def)

(***************************************************************************)
(* C19: an object constructed after every object on the segment has been   *)
(* destroyed finds the segment valid: it takes the attach path with the    *)
(* flag false, and what it reads for a primitive is what was written last. *)
(***************************************************************************)
C19_PersistsAcrossDetach ==
    \A p \in Procs :
        /\ pc[p] \in {"listSems", "mark", "clear", "header", "defaults"} =>
               via[p] = "attach" /\ ~initialized[p]
        /\ last.acc = "read" /\ last.by = p /\ via[p] = "attach" /\ Len(last.expect) = 1 =>
               last.value = last.expect[1].val

(***************************************************************************)
(* C20: no read changes a byte of the segment, time slots included: not a  *)
(* typed read accessor, toCppON, sync, equals, the update of a mirror or   *)
(* checkChanges.  A step that changes the segment is the store of an       *)
(* update accessor.                                                        *)
(***************************************************************************)
C20_ReadsLeaveSegment ==
    [][mem' # mem =>
          \E p \in Procs : /\ op[p].acc = "update"
                            /\ op[p].phase = "body"
                            /\ op'[p].phase = "post"]_vars

\* checkChanges has read a primitive whose time an update has stamped, and
\* the bytes and the stamp are the ones the update left
C20_Witness ==
    /\ last.acc = "check"
    /\ last.ts = MaxClock
    /\ last.stored \in NewValues(list.nodes[last.node].def)
    /\ hist.written[last.node] # {}

(***************************************************************************)
(* C21: whatever is done to a primitive, the update time stored for it     *)
(* never gets smaller, and an update that succeeds at a later millisecond  *)
(* than the time stored stores a time that is strictly larger.             *)
(***************************************************************************)
\* the update time stored for a primitive
StampOf(m, n) == Signed(ReadBytes(m, list.nodes[n].time, 8))

C21_TimestampMonotone ==
    [][\A n \in Primitives(list.nodes) :
          /\ StampOf(mem', n) >= StampOf(mem, n)
          /\ \A p \in Procs :
                /\ op[p].acc = "update"
                /\ op[p].node = n
                /\ op[p].phase = "body"
                /\ op'[p].phase = "post"
                /\ now' > StampOf(mem, n)
                => StampOf(mem', n) > StampOf(mem, n)]_vars

(***************************************************************************)
(* C22: every object constructed on a description binds a composite of the *)
(* tree to the same named semaphore, whether its constructor initialized   *)
(* the segment or attached to it, for units, arrays and composites in      *)
(* arrays alike.                                                           *)
(***************************************************************************)
C22_SameSemaphore ==
    \A p, q \in Procs :
        pc[p] = "ready" /\ pc[q] = "ready" =>
            \A c \in Composites(list.nodes) :
                /\ SemOf(list, via[p], c) # NoSem
                /\ SemOf(list, via[p], c) = SemOf(list, via[q], c)

(***************************************************************************)
(* C23: in every object, once it is constructed, each unit and each array  *)
(* has a semaphore of its own, and the semaphore of every primitive is the *)
(* one of the composite it lies in (the root's at the top level); no       *)
(* primitive is without a semaphore.                                       *)
(***************************************************************************)
C23_EveryNodeHasSemaphore ==
    \A p \in Procs :
        pc[p] = "ready" =>
            /\ \A c, d \in Composites(list.nodes) :
                  /\ SemOf(list, via[p], c) # NoSem
                  /\ c # d => SemOf(list, via[p], c) # SemOf(list, via[p], d)
            /\ \A n \in Primitives(list.nodes) :
                  /\ SemOf(list, via[p], n) # NoSem
                  /\ SemOf(list, via[p], n) = SemOf(list, via[p], Parent(n))

(***************************************************************************)
(* C24: when checkChanges is through with a primitive and nobody else is   *)
(* at work on the segment, the mirror holds the shared value of the        *)
(* primitive if it was reported; if it was not, the mirror holds what it   *)
(* held before and that is within the hysteresis of the shared value; and  *)
(* no byte of the mirror that is not the primitive's has changed.          *)
(***************************************************************************)
\* checkChanges of process p returns from the primitive it has compared
CheckReturns(p) ==
    /\ op[p].acc = "check"
    /\ op[p].phase = "post"
    /\ op'[p].phase # "post"
    /\ pc'[p] = "ready"

C24_MirrorAfterCheck ==
    [][\A p \in Procs :
          CheckReturns(p) /\ (\A q \in Procs \ {p} : op[q].acc = "none") =>
              LET n == op[p].node
                  node == list.nodes[n]
                  at == BasedOffset(list, n)
                  shared == ReadBytes(mem, at, node.size)
                  before == ReadBytes(mirror[p].buf, at, node.size)
                  after == ReadBytes(mirror'[p].buf, at, node.size)
                  reported == CheckedOut(p, op[p]) # op[p].out
              IN /\ reported =>
                       IF node.type = "CHAR" THEN StrN(after) = StrN(shared)
                       ELSE after = shared
                 /\ ~reported =>
                       /\ after = before
                       /\ node.def.type \in {"int", "float"} =>
                             ~Beyond(node.def, shared, before)
                 /\ \A a \in DOMAIN mirror[p].buf :
                       a \notin at..(at + node.size - 1) =>
                           mirror'[p].buf[a] = mirror[p].buf[a]]_vars

(***************************************************************************)
(* C25: a checkChanges over a unit that runs while a writer updates two    *)
(* primitives of the unit inside one hold of the unit's semaphore reports  *)
(* both of them in its document, or neither.                               *)
(***************************************************************************)
\* the primitives a document of changes names
Reported(out) == {out[i][1] : i \in 1..Len(out)}

\* the document out of process r has one of two primitives that the batch b
\* changed, with the value b left, and not the other, whose value in the
\* mirror of r is still the one from before b
TornDiff(r, out, b) ==
    /\ b.by \notin {0, r}
    /\ \E n1, n2 \in b.nodes :
          /\ n1 # n2
          /\ b.after[n1] # b.before[n1]
          /\ b.after[n2] # b.before[n2]
          /\ n1 \in Reported(out)
          /\ n2 \notin Reported(out)
          /\ StoredValue(mirror[r].buf, n1) = b.before[n1]
          /\ StoredValue(mirror[r].buf, n2) = b.before[n2]

C25_DiffAtomic ==
    \A r \in Procs :
        op[r].acc = "check" /\ op[r].phase = "post" /\ op[r].rest = <<>> =>
            ~TornDiff(r, CheckedOut(r, op[r]), hist.batch)

(***************************************************************************)
(* C26: sync sets a scalar of the document that corresponds to a primitive *)
(* of its kind (an integer, a float, a string or a boolean) to the value   *)
(* the segment holds for the primitive, and returns true exactly if the    *)
(* scalar has changed.                                                     *)
(***************************************************************************)
C26_SyncTakesShared ==
    last.acc = "sync" =>
        /\ last.value = last.stored
        /\ last.result <=> (last.value # last.doc)

(***************************************************************************)
(* C30: in every state the byte of each bool primitive is 0x00 or 0xFF:    *)
(* the defaults and every update of a bool node store one of the two.      *)
(***************************************************************************)
C30_BoolByte ==
    \A n \in Primitives(list.nodes) :
        list.nodes[n].type = "BOOL" => mem[BasedOffset(list, n)] \in {0, 255}

(***************************************************************************)
(* C27: updateArray with a document of L integers on an array of nSubs     *)
(* integers assigns the elements 0 .. min(L, nSubs) - 1 and no other, and  *)
(* asks for no element of the document at min(L, nSubs) or beyond.         *)
(***************************************************************************)
C27_ArrayWithinBounds ==
    last.acc = "updateArray" /\ (\A i \in 1..Len(last.doc) : last.doc[i].kind = "integer") =>
        LET least == Min(Len(last.doc), list.nodes[last.node].nSubs)
        IN /\ last.wrote = {last.node \o <<i>> : i \in 0..(least - 1)}
           /\ last.asked \subseteq 0..(least - 1)
           /\ ~last.crashed

(***************************************************************************)
(* C28: an update from a document returns true exactly if it has updated   *)
(* a primitive; a field of the document whose kind does not go with its    *)
(* node, or whose key no child has, is skipped and nothing is written for  *)
(* it, and the other fields are applied.                                   *)
(***************************************************************************)
\* a scalar of a document goes with a primitive of its kind
Compatible(ob, node) ==
    \/ ob.kind = "integer" /\ node.type \in {"INT64", "INT32", "INT16", "INT8"}
    \/ ob.kind = "double" /\ node.type = "DOUBLE"
    \/ ob.kind = "boolean" /\ node.type = "BOOL"
    \/ ob.kind = "string" /\ node.type = "CHAR"

\* the fields of the document of the last call: the node each one is for
\* (NULL if there is none) and its scalar
FieldsOf(l) ==
    IF l.acc = "updateObject"
    THEN {<<ChildNamed(l.node, l.doc[i][1]), l.doc[i][2]>> : i \in 1..Len(l.doc)}
    ELSE {<<l.node \o <<i - 1>>, l.doc[i]>> :
             i \in 1..Min(Len(l.doc), list.nodes[l.node].nSubs)}

C28_SkipsAndReports ==
    last.acc \in {"updateObject", "updateArray"} /\ ~last.crashed =>
        /\ last.result <=> (last.wrote # {})
        /\ \A f \in FieldsOf(last) :
              f[1] # NULL => (f[1] \in last.wrote <=> Compatible(f[2], list.nodes[f[1]]))

(***************************************************************************)
(* C29: updateObject stores an integer of the document by the type of the  *)
(* node it is for: in an int64 child all 64 bits of the value, sign        *)
(* included; in an int32, int16 or int8 child the value truncated to the   *)
(* width of the child.                                                     *)
(***************************************************************************)
C29_IntegerByNodeWidth ==
    last.acc = "updateObject" =>
        \A f \in FieldsOf(last) :
            f[1] # NULL /\ f[2].kind = "integer" =>
                ReadBytes(mem, BasedOffset(list, f[1]), list.nodes[f[1]].size)
                    = Encode(f[2].val, list.nodes[f[1]].size)

(***************************************************************************)
(* C31: readBool delivers the truth value boolValue delivers for the same  *)
(* primitive, of whatever kind: both are valid and equal; a string that    *)
(* holds "true" in any letter case reads as true, any other as false.      *)
(***************************************************************************)
C31_ReadBoolAsBoolValue ==
    (last.acc = "values" /\ last.node \in Primitives(list.nodes)) =>
        /\ last.read.valid = last.asBool.valid
        /\ last.read.result = last.asBool.result
        /\ (list.nodes[last.node].type = "CHAR" =>
               /\ last.read.valid
               /\ last.read.result = StrCaseEq(last.text, TrueText))

\* readBool has read a string that holds "TRUE" after an update stored it
C31_Witness ==
    /\ last.acc = "values"
    /\ last.node \in Primitives(list.nodes)
    /\ list.nodes[last.node].type = "CHAR"
    /\ last.text = <<84, 82, 85, 69>>
    /\ hist.updates > 0

(***************************************************************************)
(* C32: for a primitive of any kind each of doubleValue, longValue,        *)
(* intValue and boolValue reports valid, and the boolean accessor delivers *)
(* whether the stored number is not zero; not valid is reported for a      *)
(* composite only.                                                         *)
(***************************************************************************)
C32_AccessorsTotal ==
    last.acc = "values" =>
        LET prim == last.node \in Primitives(list.nodes)
        IN /\ last.asDouble.valid = prim
           /\ last.asLong.valid = prim
           /\ last.asInt.valid = prim
           /\ last.asBool.valid = prim
           /\ (prim /\ list.nodes[last.node].type \notin {"CHAR", "BOOL"} =>
                  last.asBool.result = (StoredValue(mem, last.node) # 0))

\* the accessors have read a 16 bit integer
C32_Witness ==
    /\ last.acc = "values"
    /\ last.node \in Primitives(list.nodes)
    /\ list.nodes[last.node].type = "INT16"
    /\ hist.updates > 0

(***************************************************************************)
(* C33: every string of the segment has a NUL within the bytes reserved    *)
(* for it, after the defaults are stored and after every update, and an    *)
(* update of a string changes no byte outside the bytes of the string and  *)
(* its time slot.                                                          *)
(***************************************************************************)
Terminated(m, n) ==
    \E a \in BasedOffset(list, n)..(BasedOffset(list, n) + list.nodes[n].size - 1) : m[a] = 0

Strings == {n \in Primitives(list.nodes) : list.nodes[n].type = "CHAR"}

C33_StringWithinBytes ==
    [][/\ \A n \in Strings : Terminated(mem, n) /\ Terminated(mem', n)
       /\ \A a \in DOMAIN mem :
             mem'[a] # mem[a] =>
                LET node == list.nodes[last'.node]
                    off == BasedOffset(list, last'.node)
                IN \/ a \in off..(off + node.size - 1)
                   \/ a \in node.time..(node.time + 7)]_vars

\* a string of the size of the field has been stored in the string s, whose
\* default fits
C33_Witness ==
    /\ last.acc = "updateString"
    /\ Len(last.value) = FixedSize
    /\ Len(list.nodes[last.node].def.defaultValue) < FixedSize
    /\ list.nodes[last.node].size = FixedSize

(***************************************************************************)
(* C34: the update time delivered for a composite is the latest of the     *)
(* update times of the primitives below it, at any depth, below units and  *)
(* below arrays.                                                           *)
(***************************************************************************)
LatestBelow(c) ==
    LET below == {n \in Primitives(list.nodes) : IsPrefix(c, n)}
    IN CHOOSE t \in {last.stored[n] : n \in below} :
          \A n \in below : last.stored[n] <= t

C34_CompositeTimeIsLatest ==
    (last.acc = "time" /\ last.node \in Composites(list.nodes)) =>
        last.value = TimeSpec(LatestBelow(last.node))

\* the time of a unit was asked for whose primitives have different times,
\* neither of them 0
C34_Witness ==
    /\ last.acc = "time"
    /\ list.nodes[last.node].type = "UNIT"
    /\ last.node # <<>>
    /\ \E n1, n2 \in Primitives(list.nodes) :
          /\ Parent(n1) = last.node /\ Parent(n2) = last.node
          /\ 0 < last.stored[n1] /\ last.stored[n1] < last.stored[n2]
    /\ last.value = TimeSpec(LatestBelow(last.node))

(***************************************************************************)
(* C35: waitForUpdate returns true where an update of the node completed   *)
(* after the call began and before the deadline, and false where none did; *)
(* and every call returns.                                                 *)
(***************************************************************************)
UpdatedInTime(l) == \E i \in 1..Len(l.stored) : l.stored[i][1] < l.expect[1]

C35_WaitForUpdate ==
    /\ [](last.acc = "wait" => last.result = UpdatedInTime(last))
    /\ \A p \in Procs : (op[p].acc = "wait") ~> (op[p].acc = "none")

\* a call has returned true for a primitive that was updated while it ran,
\* at a time later than the start
C35_Witness ==
    /\ last.acc = "wait"
    /\ last.result
    /\ last.node \in Primitives(list.nodes)
    /\ \E i \in 1..Len(last.stored) : last.stored[i][1] > last.value

(***************************************************************************)
(* C36: whenever a typed read with protect, toCppON, sync, equals,         *)
(* LocalCppObj::update or checkChanges reads the bytes of a string, the    *)
(* caller holds the semaphore of the string, and no other process is in    *)
(* the middle of a protected update of that string.                        *)
(***************************************************************************)
ReadsString(p) ==
    /\ op[p].acc \in {"read", "copy", "check"}
    /\ op[p].phase = "body"
    /\ op'[p].phase = "post"
    /\ list.nodes[op[p].node].type = "CHAR"

C36_StringReadUnderSemaphore ==
    [][\A p \in Procs :
          ReadsString(p) =>
             /\ SemOf(list, via[p], op[p].node) \in held[p]
             /\ \A q \in Procs \ {p} :
                   ~(/\ op[q].acc = "update"
                     /\ op[q].protect
                     /\ op[q].phase = "body"
                     /\ op[q].node = op[p].node)]_vars

\* checkChanges has read a string of which another process had asked for an
\* update
C36_Witness ==
    /\ \E p \in Procs :
          /\ op[p].fn = "checkChanges"
          /\ op[p].phase = "post"
          /\ list.nodes[op[p].node].type = "CHAR"
          /\ \E q \in Procs \ {p} : op[q].acc = "update" /\ op[q].node = op[p].node

C38_FailedUpdateStoresNothing ==
    (last.acc = "updateAt" /\ ~last.result) =>
        /\ mem = last.stored
        /\ held[last.by] = {}

\* an update accessor has returned false for a node that was not found
C38_Witness ==
    /\ last.acc = "updateAt"
    /\ ~last.result
    /\ last.node = NULL
    /\ hist.updates > 1

(***************************************************************************)
(* C39: checkChanges reports a Boolean as changed only where the truth     *)
(* value it read from the segment differs from the truth value the mirror  *)
(* holds.                                                                  *)
(***************************************************************************)
C39_BoolDiffByTruth ==
    \A p \in Procs :
        LET o == op[p]
        IN (o.fn = "checkChanges" /\ o.phase = "post" /\ list.nodes[o.node].type = "BOOL") =>
              LET save == ReadBytes(mirror[p].buf, pointer(p, o.node), 1)
              IN Changed("BOOL", o.val, save, 0) => ((o.val[1] # 0) # (save[1] # 0))

\* checkChanges has read a Boolean that an update has stored true in, the
\* mirror holding true
C39_Witness ==
    \E p \in Procs :
        /\ op[p].fn = "checkChanges"
        /\ op[p].phase = "post"
        /\ list.nodes[op[p].node].type = "BOOL"
        /\ op[p].val[1] # 0
        /\ ReadBytes(mirror[p].buf, pointer(p, op[p].node), 1)[1] # 0
        /\ TRUE \in hist.written[op[p].node]

(***************************************************************************)
(* C40: for every path and every root, given or not, resolveName delivers  *)
(* the node of the mirror whose obj is the node getElement delivers, and   *)
(* NULL where getElement delivers NULL.                                    *)
(***************************************************************************)
C40_ResolveNameAsGetElement ==
    last.acc = "resolveName" =>
        /\ (last.value = NULL) = (rsRes = NULL)
        /\ last.stored = rsRes

\* a path of two segments was resolved from a root that was given
C40_Witness ==
    /\ last.acc = "resolveName"
    /\ last.node \notin {NULL, <<>>}
    /\ last.value # NULL
    /\ Len(last.value) = Len(last.node) + 2
    /\ last.stored = rsRes

=============================================================================
